---- MODULE Spec2Model ----
(***************************************************************************)
(* Verification model of the cephadm orchestrator                          *)
(* (src/src/pybind/mgr/cephadm/module.py).                                 *)
(*                                                                         *)
(* Spec / FairSpec : the serve() loop, its sleep on the wake event and the *)
(*                   command handlers that race with it.  The inside of a  *)
(*                   stage is reduced to what serve() sees of it: whether  *)
(*                   it returned, what it returned, what it raised and     *)
(*                   which kinds of agent calls it issued.                 *)
(* The stages themselves are modelled one by one in the specifications     *)
(* that follow the loop.                                                   *)
(***************************************************************************)
EXTENDS Integers, Sequences, FiniteSets, Bags, TLC

\* ------------------------------------------------------------------------
\* Bounds
\* ------------------------------------------------------------------------
MaxLoopServices == 1

\* the service names the command thread applies and removes while serve() runs
LoopServices == 1..MaxLoopServices

VARIABLES
    run,                \* self.run
    paused,             \* self.paused
    event,              \* self.event (threading.Event): TRUE when set
    pc,                 \* where serve() is
    health_checks,      \* names of the checks in self.health_checks
    published,          \* names of the checks last given to set_health_checks
    migration_ongoing,  \* self.migration.is_migration_ongoing()
    spec_store,         \* service names in self.spec_store.specs
    hpc,                \* where the command thread is
    stages,             \* stages invoked in the current iteration, in order
    paused_at_check,    \* what "if not self.paused" read in this iteration
    work,               \* a stage of this iteration reported that it did work
    raised,             \* what the current iteration raised into serve()
    agent_calls,        \* kinds of agent calls issued in this iteration
    pending,            \* a handler set the event since the current iteration began
    resumed,            \* resume() completed since the current iteration began
    after_resume,       \* the current iteration is the first begun after resume()
    gated_before        \* the iteration before the current one read the flag set

\* The stages, one by one (the specifications after the loop).
VARIABLES
    inventory,              \* hosts in self.inventory
    cache,                  \* self.cache.daemons: host -> names of its daemons
    commands,               \* bag of the agent commands that ran on a host
    events,                 \* self.events: <<kind, subject, level>>
    health_detail,          \* self.health_checks: check -> its detail lines
    published_detail,       \* what set_health_checks was last given
    fpc,                    \* where the function under study is
    exc,                    \* what it raised to its caller
    todo,                   \* items its loop has still to visit
    snapshot,               \* the items its loop was started on
    tried,                  \* items its loop has visited, in order
    failed,                 \* items whose visit failed
    ret,                    \* its local "r"
    hostpc,                 \* refresh(host): where each host's worker is
    bad_hosts,              \* _refresh_hosts_and_daemons: bad_hosts
    failures,               \* _refresh_hosts_and_daemons: failures
    servers,                \* self.list_servers(): <<hostname, <<type, id>>>>
    warn_on_stray_hosts,    \* self.warn_on_stray_hosts
    warn_on_stray_daemons,  \* self.warn_on_stray_daemons
    fresh,                  \* hosts added and not refreshed since
    ghosts,                 \* hosts removed while daemons were cached for them
    placements,             \* self.spec_store.specs: name -> its placement
    call,                   \* the last command handled and its result
    applying,               \* _apply_service: the spec it was called with
    daemons,                \* _apply_service: ids in its local "daemons"
    remove_daemon_hosts,    \* _apply_service: remove_daemon_hosts
    asked,                  \* sets ok_to_stop was asked about, with its answer
    starting,               \* cached daemons with status 1, 'starting'
    invalidated,            \* hosts whose daemon cache is marked invalidated
    daemon_config_deps,     \* daemons with (deps, time) recorded
    requires_post_actions,  \* self.requires_post_actions
    plan                    \* _apply_service: <<hosts, add_daemon_hosts, to_remove>>

\* What _check_daemons reads and writes of a daemon's configuration.
VARIABLES
    last_config_deps,       \* cache.daemon_config_deps: <<deps, last config time>>
    last_monmap,            \* self.last_monmap, 0 for None
    now,                    \* datetime.datetime.utcnow()
    unmanaged,              \* names of the specs with spec.unmanaged
    deploying,              \* the _create_daemon that is under way
    reconfigured,           \* daemons reconfigured, and nothing changed since
    daemons_post            \* _check_daemons: daemon types in daemons_post

\* The removal of OSDs.
VARIABLES
    to_remove_osds,         \* self.to_remove_osds: osd id -> its entry
    num_pgs,                \* osd_stats: osd id -> num_pgs
    weights,                \* the cluster's weight of each osd
    removing,               \* per caller of process_removal_queue: its call
    purges,                 \* osd id -> number of purge or destroy commands
    observed,               \* queued osds seen with num_pgs == 0 since queued
    forced,                 \* queued osds that remove_osds was given force for
    path                    \* osd id -> the states of its entry, in order

\* The Scheduler and what it is run on.
VARIABLES
    service_daemons,        \* the service's daemons <<host, id>>, oldest first
    usable,                 \* hosts that pass filter_new_host
    runs,                   \* what the runs of the Scheduler gave, in order
    vetoed                  \* the daemons ok_to_stop refuses to stop

\* The connections to the hosts.
VARIABLES
    offline_hosts,          \* self.offline_hosts
    cons,                   \* keys of self._cons, the pooled connections
    addrs,                  \* host -> what inventory.get_addr(host) gives
    attempt                 \* the _run_cephadm under way

\* A service spec on its way through the conversions.
VARIABLES
    document,               \* the YAML document given: <<key, value>> pairs
    loaded,                 \* ServiceSpec.from_json(yaml.safe_load(document))
    dumped,                 \* yaml.dump(loaded)
    reloaded,               \* ServiceSpec.from_json(loaded.to_json())
    exported                \* the document is one that yaml.dump has written

\* The host checks of the serve loop.
VARIABLES
    last_host_check,        \* hosts whose last check-host is not yet old
    check_failed            \* hosts whose latest check-host gave a detail line

\* The NFS exports of one cluster.
VARIABLES
    exports                 \* self.exports[cluster_id]: <<export_id, pseudo>>

loopVars == <<run, paused, event, pc, health_checks, published,
              migration_ongoing, spec_store, hpc, stages, paused_at_check, work,
              raised, agent_calls, pending, resumed, after_resume, gated_before>>

clusterVars == <<inventory, cache>>
callVars == <<commands, events>>
healthVars == <<health_detail, published_detail>>
frameVars == <<fpc, exc, todo, snapshot, tried, failed, ret>>
refreshVars == <<hostpc, bad_hosts, failures>>
strayVars == <<servers, warn_on_stray_hosts, warn_on_stray_daemons>>
hostVars == <<fresh, ghosts>>
serviceVars == <<placements, call, applying, daemons, remove_daemon_hosts, asked,
                 plan>>
daemonVars == <<starting, invalidated, daemon_config_deps,
                requires_post_actions>>

configVars == <<last_config_deps, last_monmap, now, unmanaged, deploying,
                reconfigured, daemons_post>>
osdVars == <<to_remove_osds, num_pgs, weights, removing, purges, observed,
             forced, path>>
schedVars == <<service_daemons, usable, runs, vetoed>>
connVars == <<offline_hosts, cons, addrs, attempt>>
serialVars == <<document, loaded, dumped, reloaded, exported>>
hostCheckVars == <<last_host_check, check_failed>>
exportVars == <<exports>>
restVars == <<configVars, osdVars, schedVars, connVars, serialVars,
              hostCheckVars, exportVars>>

stageVars == <<clusterVars, callVars, healthVars, frameVars, refreshVars,
               strayVars, hostVars, serviceVars, daemonVars, restVars>>

vars == <<loopVars, stageVars>>

loopHist == <<stages, paused_at_check, work, raised, agent_calls>>

\* ------------------------------------------------------------------------
\* The cluster the stages work on
\* ------------------------------------------------------------------------
MaxHosts == 2
MaxServices == 4

Hosts == 1..MaxHosts

\* The daemon types of self.cephadm_services.
ServiceTypes == <<"mds", "mon", "rgw", "osd", "mgr", "rbd-mirror", "nfs",
                  "grafana", "alertmanager", "prometheus", "node-exporter",
                  "crash", "iscsi">>

\* The types in use; a service is named after its type (no service_id).
DaemonTypes ==
    {ServiceTypes[i] : i \in 1..(IF MaxServices < Len(ServiceTypes)
                                   THEN MaxServices ELSE Len(ServiceTypes))}

\* One daemon of each type: <<daemon_type, daemon_id>>.
Daemons == {<<t, "a">> : t \in DaemonTypes}

\* dd.name(): '%s.%s' % (daemon_type, daemon_id), kept as the pair.
DaemonName(type, id) == <<type, id>>

\* dd.service_name()
ServiceName(dd) == dd[1]

\* HostCache contents: a daemon name is cached under one host at most.
Caches(hs) ==
    {c \in [hs -> SUBSET Daemons] :
        \A g, h \in hs : g # h => c[g] \cap c[h] = {}}

\* self.cache.get_daemons(), with the host each is cached under
CachedDaemons == {<<h, dd>> : h \in DOMAIN cache, dd \in Daemons} \cap
                 {x \in (DOMAIN cache) \X Daemons : x[2] \in cache[x[1]]}

\* self.cache.get_daemon_names()
CachedNames == UNION {cache[h] : h \in DOMAIN cache}

\* The health checks that carry one detail line per failure.
DetailChecks == {"CEPHADM_HOST_CHECK_FAILED", "CEPHADM_REFRESH_FAILED",
                 "CEPHADM_STRAY_HOST", "CEPHADM_STRAY_DAEMON"}

NoDetail == [k \in DetailChecks |-> {}]

\* The loop is not running: a stage is studied on its own.
LoopIdle ==
    /\ run = TRUE
    /\ paused = FALSE
    /\ event = TRUE
    /\ pc = "while"
    /\ health_checks = {}
    /\ published = {}
    /\ migration_ongoing = FALSE
    /\ hpc = "idle"
    /\ stages = <<>>
    /\ paused_at_check = "unread"
    /\ work = FALSE
    /\ raised = "none"
    /\ agent_calls = {}
    /\ pending = FALSE
    /\ resumed = FALSE
    /\ after_resume = FALSE
    /\ gated_before = FALSE

ClusterIdle == inventory = {} /\ cache = <<>>
CallsIdle == commands = EmptyBag /\ events = {}
HealthIdle == health_detail = NoDetail /\ published_detail = NoDetail
FrameIdle ==
    /\ fpc = "idle"
    /\ exc = "none"
    /\ todo = {}
    /\ snapshot = {}
    /\ tried = <<>>
    /\ failed = {}
    /\ ret = FALSE
RefreshIdle == hostpc = <<>> /\ bad_hosts = {} /\ failures = {}
StrayIdle ==
    /\ servers = {}
    /\ warn_on_stray_hosts = FALSE
    /\ warn_on_stray_daemons = FALSE
HostIdle == fresh = {} /\ ghosts = {}
ServiceIdle ==
    /\ placements = <<>>
    /\ call = <<>>
    /\ applying = <<>>
    /\ daemons = {}
    /\ remove_daemon_hosts = {}
    /\ asked = {}
    /\ starting = {}
    /\ invalidated = {}
    /\ daemon_config_deps = {}
    /\ requires_post_actions = {}
    /\ plan = <<>>

ConfigIdle ==
    /\ last_config_deps = <<>>
    /\ last_monmap = 0
    /\ now = 0
    /\ unmanaged = {}
    /\ deploying = <<>>
    /\ reconfigured = {}
    /\ daemons_post = {}

OsdIdle ==
    /\ to_remove_osds = <<>>
    /\ num_pgs = <<>>
    /\ weights = <<>>
    /\ removing = <<>>
    /\ purges = <<>>
    /\ observed = {}
    /\ forced = {}
    /\ path = <<>>

SchedIdle ==
    service_daemons = <<>> /\ usable = {} /\ runs = <<>> /\ vetoed = {}

ConnIdle ==
    offline_hosts = {} /\ cons = {} /\ addrs = <<>> /\ attempt = <<>>

SerialIdle ==
    /\ document = <<>>
    /\ loaded = <<>>
    /\ dumped = <<>>
    /\ reloaded = <<>>
    /\ exported = FALSE

HostCheckIdle == last_host_check = {} /\ check_failed = {}

ExportIdle == exports = <<>>

LateIdle == SerialIdle /\ HostCheckIdle /\ ExportIdle

RestIdle == ConfigIdle /\ OsdIdle /\ SchedIdle /\ ConnIdle /\ LateIdle

\* No stage is studied: the loop is.
StagesIdle ==
    /\ ClusterIdle
    /\ CallsIdle
    /\ HealthIdle
    /\ FrameIdle
    /\ RefreshIdle
    /\ StrayIdle
    /\ HostIdle
    /\ ServiceIdle
    /\ RestIdle

\* The order of the stages in serve().
StageOrder == <<"refresh", "strays", "paused_health", "removal", "migrate",
                "apply", "check_daemons", "upgrade">>

\* The stages inside "if not self.paused:".
GatedStages == {"removal", "migrate", "apply", "check_daemons", "upgrade"}

\* An exception is an OrchestratorError or anything else.
ExcKinds == {"OrchestratorError", "Exception"}

\* serve(): "except OrchestratorError" falls through to _serve_sleep; any other
\* exception leaves serve().
AfterRaise(kind) == IF kind = "OrchestratorError" THEN "wait" ELSE "raised"

\* A stage that has no try/except of its own raises into serve().
StageRaises(stage) ==
    /\ \E kind \in ExcKinds :
          /\ raised' = kind
          /\ pc' = AfterRaise(kind)
    /\ stages' = Append(stages, stage)

Init ==
    /\ run = TRUE
    /\ paused \in BOOLEAN
    /\ event = TRUE
    /\ pc = "while"
    /\ health_checks = {}
    /\ published = {}
    /\ migration_ongoing \in BOOLEAN
    /\ spec_store = {}
    /\ hpc = "idle"
    /\ stages = <<>>
    /\ paused_at_check = "unread"
    /\ work = FALSE
    /\ raised = "none"
    /\ agent_calls = {}
    /\ pending = FALSE
    /\ resumed = FALSE
    /\ after_resume = FALSE
    /\ gated_before = FALSE
    /\ StagesIdle

\* ------------------------------------------------------------------------
\* serve()
\* ------------------------------------------------------------------------
AgentCallKinds == {"deploy", "rm-daemon"}

\* "while self.run:" -- a new iteration begins, or serve() returns.
ServeWhile ==
    /\ pc = "while"
    /\ IF run
         THEN /\ pc' = "refresh"
              /\ stages' = <<>>
              /\ paused_at_check' = "unread"
              /\ work' = FALSE
              /\ raised' = "none"
              /\ agent_calls' = {}
              /\ after_resume' = resumed
              /\ gated_before' = (paused_at_check = "set")
              /\ pending' = FALSE
              /\ resumed' = FALSE
         ELSE /\ pc' = "done"
              /\ UNCHANGED <<loopHist, after_resume, pending, resumed,
                             gated_before>>
    /\ UNCHANGED <<run, paused, event, health_checks, published,
                   migration_ongoing, spec_store, hpc>>
    /\ UNCHANGED stageVars

\* self._refresh_hosts_and_daemons() returns.  It issues check-host, ls,
\* registry-login, ceph-volume and list-networks, never deploy or rm-daemon,
\* and publishes the health checks when one of its own changed.
ServeRefreshReturns ==
    /\ pc = "refresh"
    /\ pc' = "strays"
    /\ stages' = Append(stages, "refresh")
    /\ published' \in {published, health_checks}
    /\ UNCHANGED <<run, paused, event, health_checks, migration_ongoing,
                   spec_store, hpc, paused_at_check, work, raised, agent_calls,
                   pending, resumed, after_resume, gated_before>>
    /\ UNCHANGED stageVars

ServeRefreshRaises ==
    /\ pc = "refresh"
    /\ StageRaises("refresh")
    /\ UNCHANGED <<run, paused, event, health_checks, published,
                   migration_ongoing, spec_store, hpc, paused_at_check, work,
                   agent_calls, pending, resumed, after_resume, gated_before>>
    /\ UNCHANGED stageVars

\* self._check_for_strays() returns: it always ends in set_health_checks.
ServeStraysReturns ==
    /\ pc = "strays"
    /\ pc' = "paused_health"
    /\ stages' = Append(stages, "strays")
    /\ published' = health_checks
    /\ UNCHANGED <<run, paused, event, health_checks, migration_ongoing,
                   spec_store, hpc, paused_at_check, work, raised, agent_calls,
                   pending, resumed, after_resume, gated_before>>
    /\ UNCHANGED stageVars

ServeStraysRaises ==
    /\ pc = "strays"
    /\ StageRaises("strays")
    /\ UNCHANGED <<run, paused, event, health_checks, published,
                   migration_ongoing, spec_store, hpc, paused_at_check, work,
                   agent_calls, pending, resumed, after_resume, gated_before>>
    /\ UNCHANGED stageVars

UpdatePausedHealthNeverDeletes ==
    /\ health_checks' = IF paused THEN health_checks \cup {"CEPHADM_PAUSED"}
                                  ELSE health_checks
    /\ published' = IF paused THEN health_checks' ELSE published

\* _update_paused_health
UpdatePausedHealth ==
    IF paused
      THEN /\ health_checks' = health_checks \cup {"CEPHADM_PAUSED"}
           /\ published' = health_checks'
      ELSE IF "CEPHADM_PAUSED" \in health_checks
             THEN /\ health_checks' = health_checks \ {"CEPHADM_PAUSED"}
                  /\ published' = health_checks'
             ELSE UNCHANGED <<health_checks, published>>

ServeUpdatePausedHealth ==
    /\ pc = "paused_health"
    /\ UpdatePausedHealth
    /\ pc' = "pause_check"
    /\ stages' = Append(stages, "paused_health")
    /\ UNCHANGED <<run, paused, event, migration_ongoing, spec_store, hpc,
                   paused_at_check, work, raised, agent_calls, pending, resumed,
                   after_resume, gated_before>>
    /\ UNCHANGED stageVars

PauseCheckIgnored == "removal"

\* "if not self.paused:" -- the next position of serve().
PauseCheck == IF paused THEN "wait" ELSE "removal"

ServePauseCheck ==
    /\ pc = "pause_check"
    /\ paused_at_check' = IF paused THEN "set" ELSE "clear"
    /\ pc' = PauseCheck
    /\ UNCHANGED <<run, paused, event, health_checks, published,
                   migration_ongoing, spec_store, hpc, stages, work, raised,
                   agent_calls, pending, resumed, after_resume, gated_before>>
    /\ UNCHANGED stageVars

\* self.rm_util.process_removal_queue(): removes drained OSDs with rm-daemon.
ServeRemoval ==
    /\ pc = "removal"
    /\ \/ /\ pc' = "migrate"
          /\ stages' = Append(stages, "removal")
          /\ UNCHANGED raised
       \/ StageRaises("removal")
    /\ \E calls \in SUBSET {"rm-daemon"} : agent_calls' = agent_calls \cup calls
    /\ UNCHANGED <<run, paused, event, health_checks, published,
                   migration_ongoing, spec_store, hpc, paused_at_check, work,
                   pending, resumed, after_resume, gated_before>>
    /\ UNCHANGED stageVars

AfterMigrateNeverContinues(ongoing) == "apply"

\* "self.migration.migrate(); if self.migration.is_migration_ongoing(): continue"
AfterMigrate(ongoing) == IF ongoing THEN "while" ELSE "apply"

ServeMigrate ==
    /\ pc = "migrate"
    /\ \/ /\ \E finished \in BOOLEAN :
                migration_ongoing' = (migration_ongoing /\ ~finished)
          /\ pc' = AfterMigrate(migration_ongoing')
          /\ work' = migration_ongoing'
          /\ stages' = Append(stages, "migrate")
          /\ UNCHANGED raised
       \/ /\ StageRaises("migrate")
          /\ UNCHANGED <<migration_ongoing, work>>
    /\ UNCHANGED <<run, paused, event, health_checks, published, spec_store,
                   hpc, paused_at_check, agent_calls, pending, resumed,
                   after_resume, gated_before>>
    /\ UNCHANGED stageVars

AfterApplyNeverContinues(r) == "check_daemons"

\* "if self._apply_all_services(): continue"
AfterApply(r) == IF r THEN "while" ELSE "check_daemons"

\* _apply_all_services catches every exception of _apply_service, so it
\* returns; it returns True only after a deploy or an rm-daemon.
ServeApplyAll ==
    /\ pc = "apply"
    /\ \E r \in BOOLEAN, calls \in SUBSET AgentCallKinds :
          /\ r => calls # {}
          /\ spec_store = {} => calls = {}
          /\ agent_calls' = agent_calls \cup calls
          /\ work' = r
          /\ pc' = AfterApply(r)
    /\ stages' = Append(stages, "apply")
    /\ UNCHANGED <<run, paused, event, health_checks, published,
                   migration_ongoing, spec_store, hpc, paused_at_check, raised,
                   pending, resumed, after_resume, gated_before>>
    /\ UNCHANGED stageVars

\* self._check_daemons(): rm-daemon for orphans, deploy --reconfig.
ServeCheckDaemons ==
    /\ pc = "check_daemons"
    /\ \/ /\ pc' = "upgrade"
          /\ stages' = Append(stages, "check_daemons")
          /\ UNCHANGED raised
       \/ StageRaises("check_daemons")
    /\ \E calls \in SUBSET AgentCallKinds : agent_calls' = agent_calls \cup calls
    /\ UNCHANGED <<run, paused, event, health_checks, published,
                   migration_ongoing, spec_store, hpc, paused_at_check, work,
                   pending, resumed, after_resume, gated_before>>
    /\ UNCHANGED stageVars

AfterUpgradeNeverContinues(r) == "wait"

\* "if self.upgrade.continue_upgrade(): continue", then _serve_sleep
AfterUpgrade(r) == IF r THEN "while" ELSE "wait"

ServeUpgrade ==
    /\ pc = "upgrade"
    /\ \/ /\ \E r \in BOOLEAN :
                /\ work' = r
                /\ pc' = AfterUpgrade(r)
          /\ stages' = Append(stages, "upgrade")
          /\ UNCHANGED raised
       \/ /\ StageRaises("upgrade")
          /\ UNCHANGED work
    /\ \E calls \in SUBSET {"deploy"} : agent_calls' = agent_calls \cup calls
    /\ UNCHANGED <<run, paused, event, health_checks, published,
                   migration_ongoing, spec_store, hpc, paused_at_check,
                   pending, resumed, after_resume, gated_before>>
    /\ UNCHANGED stageVars

\* _serve_sleep: self.event.wait(sleep_interval) returns because the event is set
ServeWaitWoken ==
    /\ pc = "wait"
    /\ event
    /\ pc' = "clear"
    /\ UNCHANGED <<run, paused, event, health_checks, published,
                   migration_ongoing, spec_store, hpc, loopHist, pending,
                   resumed, after_resume, gated_before>>
    /\ UNCHANGED stageVars

\* _serve_sleep: the event stayed unset for the whole sleep_interval
ServeWaitTimeout ==
    /\ pc = "wait"
    /\ ~event
    /\ pc' = "clear"
    /\ UNCHANGED <<run, paused, event, health_checks, published,
                   migration_ongoing, spec_store, hpc, loopHist, pending,
                   resumed, after_resume, gated_before>>
    /\ UNCHANGED stageVars

\* _serve_sleep: self.event.clear()
ServeClear ==
    /\ pc = "clear"
    /\ event' = FALSE
    /\ pc' = "while"
    /\ UNCHANGED <<run, paused, health_checks, published, migration_ongoing,
                   spec_store, hpc, loopHist, pending, resumed, after_resume,
                   gated_before>>
    /\ UNCHANGED stageVars

\* ------------------------------------------------------------------------
\* Command handlers (one command thread): each changes the state and then
\* sets the wake event, in two steps that serve() can come between.
\* ------------------------------------------------------------------------
KickServeLoopForgotten == event' = event

\* _kick_serve_loop
KickServeLoop == event' = TRUE

\* pause(): "if not self.paused: ... self.paused = True"
Pause ==
    /\ hpc = "idle"
    /\ ~paused
    /\ paused' = TRUE
    /\ hpc' = "pause_kick"
    /\ UNCHANGED <<run, event, pc, health_checks, published, migration_ongoing,
                   spec_store, loopHist, pending, resumed, after_resume,
                   gated_before>>
    /\ UNCHANGED stageVars

\* resume(): "if self.paused: ... self.paused = False"; the kick is unconditional
Resume ==
    /\ hpc = "idle"
    /\ paused' = FALSE
    /\ hpc' = "resume_kick"
    /\ UNCHANGED <<run, event, pc, health_checks, published, migration_ongoing,
                   spec_store, loopHist, pending, resumed, after_resume,
                   gated_before>>
    /\ UNCHANGED stageVars

\* _apply -> _apply_service_spec: rejected while a migration is ongoing,
\* otherwise self.spec_store.save(spec)
ApplyServiceSpec(s) ==
    /\ hpc = "idle"
    /\ ~migration_ongoing
    /\ spec_store' = spec_store \cup {s}
    /\ hpc' = "apply_kick"
    /\ UNCHANGED <<run, paused, event, pc, health_checks, published,
                   migration_ongoing, loopHist, pending, resumed, after_resume,
                   gated_before>>
    /\ UNCHANGED stageVars

\* remove_service: "found = self.spec_store.rm(service_name); if found: kick"
RemoveService(s) ==
    /\ hpc = "idle"
    /\ s \in spec_store
    /\ spec_store' = spec_store \ {s}
    /\ hpc' = "remove_kick"
    /\ UNCHANGED <<run, paused, event, pc, health_checks, published,
                   migration_ongoing, loopHist, pending, resumed, after_resume,
                   gated_before>>
    /\ UNCHANGED stageVars

\* the second step of pause, resume, _apply_service_spec and remove_service
HandlerKick ==
    /\ hpc \in {"pause_kick", "resume_kick", "apply_kick", "remove_kick"}
    /\ KickServeLoop
    /\ pending' = TRUE
    /\ resumed' = (resumed \/ hpc = "resume_kick")
    /\ hpc' = "idle"
    /\ UNCHANGED <<run, paused, pc, health_checks, published, migration_ongoing,
                   spec_store, loopHist, after_resume, gated_before>>
    /\ UNCHANGED stageVars

\* shutdown(): "self.run = False"
Shutdown ==
    /\ hpc = "idle"
    /\ run
    /\ run' = FALSE
    /\ hpc' = "shutdown_set"
    /\ UNCHANGED <<paused, event, pc, health_checks, published,
                   migration_ongoing, spec_store, loopHist, pending, resumed,
                   after_resume, gated_before>>
    /\ UNCHANGED stageVars

\* shutdown(): "self.event.set()"
ShutdownSet ==
    /\ hpc = "shutdown_set"
    /\ event' = TRUE
    /\ hpc' = "idle"
    /\ UNCHANGED <<run, paused, pc, health_checks, published, migration_ongoing,
                   spec_store, loopHist, pending, resumed, after_resume,
                   gated_before>>
    /\ UNCHANGED stageVars

ServeStep ==
    \/ ServeWhile
    \/ ServeRefreshReturns
    \/ ServeRefreshRaises
    \/ ServeStraysReturns
    \/ ServeStraysRaises
    \/ ServeUpdatePausedHealth
    \/ ServePauseCheck
    \/ ServeRemoval
    \/ ServeMigrate
    \/ ServeApplyAll
    \/ ServeCheckDaemons
    \/ ServeUpgrade
    \/ ServeWaitWoken
    \/ ServeWaitTimeout
    \/ ServeClear

Next ==
    \/ ServeStep
    \/ Pause
    \/ Resume
    \/ \E s \in LoopServices : ApplyServiceSpec(s)
    \/ \E s \in LoopServices : RemoveService(s)
    \/ HandlerKick
    \/ Shutdown
    \/ ShutdownSet

Spec == Init /\ [][Next]_vars

\* serve() runs on its own thread and the timed wait returns, so the loop
\* always takes its next step; a refresh or a stray check that can return
\* does not raise forever.
FairSpec ==
    /\ Spec
    /\ WF_vars(ServeStep)
    /\ SF_vars(ServeRefreshReturns)
    /\ SF_vars(ServeStraysReturns)

\* ------------------------------------------------------------------------
\* Claims about the loop
\* ------------------------------------------------------------------------
InStages(s) == \E i \in 1..Len(stages) : stages[i] = s

ServeReturned == pc \in {"done", "raised"}

\* the last iteration is over: serve() sleeps, or is back at "while self.run"
IterationOver == pc \in {"wait", "clear", "while", "done"}

C1_PausedIterationIsGated ==
    paused_at_check = "set" =>
        /\ \A g \in GatedStages : ~InStages(g)
        /\ agent_calls = {}
        /\ pc \in {"wait", "clear", "while", "done"}

C1_ClearIterationReconciles ==
    paused_at_check = "clear" =>
        /\ pc = "removal" \/ InStages("removal")
        /\ (InStages("removal") /\ ~InStages("migrate")) =>
               (pc = "migrate" \/ raised # "none")
        /\ (InStages("migrate") /\ ~InStages("apply")) =>
               (pc = "apply" \/ work \/ raised # "none")

C1_ResumeWakes == resumed => (event \/ pc \in {"while", "done"})

\* C1 (as amended): an iteration that reads the paused flag set at the pause
\* check invokes none of process_removal_queue, migrate, _apply_all_services,
\* _check_daemons, continue_upgrade and issues no deploy and no rm-daemon;
\* resume() leaves the wake event set for the running loop, and an iteration
\* that reads the flag clear invokes process_removal_queue, then (unless that
\* raised) migrate, and then (unless that raised) _apply_all_services once
\* migrate has returned with no migration ongoing.
C1_PauseGatesResumeReenables ==
    /\ C1_PausedIterationIsGated
    /\ C1_ClearIterationReconciles
    /\ C1_ResumeWakes

\* C1 witness: the iteration before was gated by the paused flag; the first
\* iteration begun after resume() ran _apply_all_services on a saved spec and
\* deployed.
C1_Witness ==
    /\ gated_before
    /\ after_resume
    /\ InStages("apply")
    /\ spec_store # {}
    /\ "deploy" \in agent_calls

\* C1 as stated: the paused iteration is gated, and the first iteration begun
\* after resume() executes _apply_all_services (read in the claim's favour:
\* only iterations that read the flag clear and in which nothing raised).
C1_Original ==
    /\ C1_PausedIterationIsGated
    /\ (after_resume /\ IterationOver /\ paused_at_check = "clear"
            /\ raised = "none") => InStages("apply")

\* C2: no wake-up is lost.  Once a handler has changed the state and set the
\* event, and until an iteration begins, the event is still set or serve()
\* has already left the wait and is about to begin an iteration: the loop
\* cannot sleep out the timeout with that wake-up outstanding (the event is
\* cleared with no iteration to follow only when shutdown() has made serve()
\* return).
C2_NoLostWakeup == pending => (event \/ pc \in {"while", "done"})

\* C2 witness: the handler set the event between event.wait returning and
\* event.clear(); the event is clear again and the iteration is about to begin.
C2_Witness == pending /\ ~event /\ pc = "while" /\ run

C3_UpdateStep == pc = "paused_health" /\ pc' = "pause_check"

C3_PausedLeadsToPublished ==
    (paused /\ "CEPHADM_PAUSED" \notin published)
        ~> ("CEPHADM_PAUSED" \in published \/ ~paused \/ ServeReturned)

C3_ResumedLeadsToRemoved ==
    (~paused /\ "CEPHADM_PAUSED" \in published)
        ~> ("CEPHADM_PAUSED" \notin published \/ paused \/ ServeReturned)

IsPrefix(s, t) == Len(s) <= Len(t) /\ \A i \in 1..Len(s) : s[i] = t[i]

StagePcs == {"refresh", "strays", "paused_health", "pause_check", "removal",
             "migrate", "apply", "check_daemons", "upgrade"}

C4_LeavesStages == pc \in StagePcs /\ pc' \notin StagePcs

\* C4: the stages of an iteration are invoked in the fixed order; as soon as a
\* stage reports work the loop is back at "while self.run" with no further
\* stage and no sleep; an iteration that ends with no stage reporting work
\* goes to _serve_sleep (an exception that is not an OrchestratorError leaves
\* serve() instead), and the wait ends only by the event or the timer.
C4_StageOrderAndContinue ==
    /\ [](IsPrefix(stages, StageOrder))
    /\ [](work => pc \in {"while", "done"})
    /\ [][C4_LeavesStages =>
            /\ work' <=> pc' = "while"
            /\ ~work' => pc' = (IF raised' = "Exception" THEN "raised" ELSE "wait")]_vars
    /\ [][(pc = "wait" /\ pc' # "wait") => pc' = "clear"]_vars

\* C4 witness: all eight stages ran in order and the upgrade step reported
\* work, so the loop is at "while self.run" without having slept.
C4_Witness == work /\ pc = "while" /\ stages = StageOrder

\* C5 as stated: serve() returns only after the run flag was cleared, and an
\* iteration in which a stage raised ends in _serve_sleep.
C5_ServeReturnsOnlyAfterShutdown ==
    /\ ServeReturned => ~run
    /\ raised # "none" => pc \in {"wait", "clear", "while", "done"}

\* C16: while the migration is unfinished no spec is saved, the inventory
\* does not change and no apply is on its way to wake the loop (apply() is
\* rejected by verify_no_migration before it does anything); and the loop
\* has invoked none of _apply_all_services, _check_daemons, continue_upgrade
\* in an iteration whose migrate() left the migration ongoing.
C16_MigrationBlocksApply ==
    /\ [](migration_ongoing =>
            /\ ~InStages("apply")
            /\ ~InStages("check_daemons")
            /\ ~InStages("upgrade")
            /\ hpc # "apply_kick")
    /\ [][migration_ongoing =>
            /\ spec_store' \subseteq spec_store
            /\ inventory' = inventory]_vars

\* C16 witness: migrate() has just returned with the migration still ongoing
\* and the loop is back at "while self.run" without having gone on to
\* _apply_all_services; no spec has been saved.
C16_Witness ==
    /\ migration_ongoing
    /\ work
    /\ pc = "while"
    /\ stages = <<"refresh", "strays", "paused_health", "removal", "migrate">>
    /\ spec_store = {}

\* ========================================================================
\* ApplySpec: one pass of _apply_all_services
\* ========================================================================
ApplyOthers == <<clusterVars, callVars, healthVars, refreshVars, strayVars,
                 hostVars, serviceVars, daemonVars, restVars>>

ApplyInit ==
    /\ LoopIdle
    /\ spec_store \in SUBSET DaemonTypes
    /\ StagesIdle

\* "specs = []; for sn, spec in self.spec_store.specs.items(): specs.append(spec)"
ApplyAllServicesBegin ==
    /\ fpc = "idle"
    /\ fpc' = "apply_loop"
    /\ ret' = FALSE
    /\ snapshot' = spec_store
    /\ todo' = spec_store
    /\ UNCHANGED <<exc, tried, failed>>
    /\ UNCHANGED <<loopVars, ApplyOthers>>

\* "if self._apply_service(spec): r = True"
ApplyServiceReturns(spec) ==
    /\ fpc = "apply_loop"
    /\ spec \in todo
    /\ \E did \in BOOLEAN : ret' = (ret \/ did)
    /\ todo' = todo \ {spec}
    /\ tried' = Append(tried, spec)
    /\ UNCHANGED <<fpc, exc, snapshot, failed>>
    /\ UNCHANGED <<loopVars, ApplyOthers>>

\* "except Exception": an OrchestratorError is one
ApplyAllCatchesOrchestratorError(kind) == kind = "OrchestratorError"

\* "except Exception as e:" around one spec's _apply_service
ApplyAllCatches(kind) == kind \in ExcKinds

\* _apply_service(spec) raises: logged, an ERROR event for the service, and
\* the loop goes on; what is not caught leaves _apply_all_services.
ApplyServiceRaises(spec) ==
    /\ fpc = "apply_loop"
    /\ spec \in todo
    /\ tried' = Append(tried, spec)
    /\ failed' = failed \cup {spec}
    /\ \E kind \in ExcKinds :
          IF ApplyAllCatches(kind)
            THEN /\ events' = events \cup {<<"service", spec, "ERROR">>}
                 /\ todo' = todo \ {spec}
                 /\ UNCHANGED <<fpc, exc>>
            ELSE /\ fpc' = "raised"
                 /\ exc' = kind
                 /\ UNCHANGED <<events, todo>>
    /\ UNCHANGED <<snapshot, ret, commands>>
    /\ UNCHANGED <<loopVars, clusterVars, healthVars, refreshVars, strayVars,
                   hostVars, serviceVars, daemonVars, restVars>>

\* "return r"
ApplyAllServicesReturn ==
    /\ fpc = "apply_loop"
    /\ todo = {}
    /\ fpc' = "returned"
    /\ UNCHANGED <<exc, todo, snapshot, tried, failed, ret>>
    /\ UNCHANGED <<loopVars, ApplyOthers>>

ApplyNext ==
    \/ ApplyAllServicesBegin
    \/ \E spec \in DaemonTypes : ApplyServiceReturns(spec)
    \/ \E spec \in DaemonTypes : ApplyServiceRaises(spec)
    \/ ApplyAllServicesReturn

ApplySpec == ApplyInit /\ [][ApplyNext]_vars

Range(s) == {s[i] : i \in 1..Len(s)}

\* C6: a pass of _apply_all_services never raises; when it returns, every
\* spec of the SpecStore has been passed to _apply_service exactly once,
\* whichever of them raised; and each spec whose _apply_service raised has an
\* ERROR event for its service.
C6_ApplyAllIsolatesFailures ==
    /\ fpc # "raised" /\ exc = "none"
    /\ fpc = "returned" =>
          /\ Range(tried) = spec_store
          /\ Len(tried) = Cardinality(spec_store)
    /\ \A spec \in failed : <<"service", spec, "ERROR">> \in events

\* C6 witness: the first spec of a pass raised, the pass went on to the
\* others and returned.
C6_Witness ==
    /\ fpc = "returned"
    /\ Len(tried) >= 3
    /\ tried[1] \in failed
    /\ tried[2] \notin failed
    /\ tried[3] \in failed


\* ========================================================================
\* RefreshSpec: one pass of _refresh_hosts_and_daemons
\* ========================================================================
RefreshOthers == <<callVars, strayVars, hostVars, serviceVars, daemonVars,
                   restVars>>

RefreshInit ==
    /\ LoopIdle
    /\ spec_store = {}
    /\ inventory = Hosts
    /\ cache = [h \in Hosts |-> {}]
    /\ CallsIdle
    /\ HealthIdle
    /\ FrameIdle
    /\ RefreshIdle
    /\ StrayIdle
    /\ HostIdle
    /\ ServiceIdle
    /\ RestIdle

\* The steps of refresh(host), in order.
RefreshSteps == <<"check-host", "ls", "registry-login", "ceph-volume",
                  "osdspec-previews", "ceph.conf">>

\* The step after a step, "done" after the last.
StepAfter(step) ==
    LET i == CHOOSE j \in 1..Len(RefreshSteps) : RefreshSteps[j] = step
    IN  IF i < Len(RefreshSteps) THEN RefreshSteps[i + 1] ELSE "done"

\* Outcomes in which the host could not be contacted: the connection could
\* not be opened ("unreachable") or broke while a command ran ("runtime").
ContactFailures == {"unreachable", "runtime"}

\* What each step adds for the host, by outcome: "ok" nothing (the step was
\* not due, or succeeded), "bad_hosts" / "failures" a line of that list, an
\* exception kind what the step raises into refresh(host).

\* _check_host: everything is inside try/except Exception; a non-zero exit is
\* a line only if warn_on_failed_host_check.
CheckHostEffect(outcome) ==
    CASE outcome = "ok" -> "ok"
      [] outcome = "code_quiet" -> "ok"
      [] outcome = "code" -> "bad_hosts"
      [] outcome = "unreachable" -> "bad_hosts"

\* _refresh_host_daemons: the call is inside try/except Exception (the
\* output of a call that succeeded is taken to be the JSON that json.loads
\* expects).
RefreshHostDaemonsEffect(outcome) ==
    CASE outcome = "ok" -> "ok"
      [] outcome = "code" -> "failures"
      [] outcome = "unreachable" -> "failures"

\* _registry_login: _run_cephadm(error_ok=True) returns the exit code, and
\* nothing catches the OrchestratorError of a failed connection.
RegistryLoginEffect(outcome) ==
    CASE outcome = "ok" -> "ok"
      [] outcome = "code" -> "bad_hosts"
      [] outcome = "unreachable" -> "OrchestratorError"

\* _refresh_host_devices: both calls are inside try/except Exception.
RefreshHostDevicesEffect(outcome) ==
    CASE outcome = "ok" -> "ok"
      [] outcome = "code" -> "failures"
      [] outcome = "unreachable" -> "failures"

\* _refresh_host_osdspec_previews returns True, which refresh(host) appends
\* to failures.
RefreshHostOsdspecPreviewsEffect(outcome) ==
    IF outcome = "ok" THEN "ok" ELSE "failures"

\* _deploy_etc_ceph_ceph_conf: "except OrchestratorError" only, so a
\* RuntimeError of remoto.process.check is raised into refresh(host).
DeployEtcCephCephConfEffect(outcome) ==
    CASE outcome = "ok" -> "ok"
      [] outcome = "code" -> "bad_hosts"
      [] outcome = "unreachable" -> "bad_hosts"
      [] outcome = "runtime" -> "Exception"

\* "refresh(self.cache.get_hosts())": one worker per host
RefreshBegin ==
    /\ fpc = "idle"
    /\ fpc' = "forall_hosts"
    /\ hostpc' = [h \in DOMAIN cache |-> RefreshSteps[1]]
    /\ bad_hosts' = {}
    /\ failures' = {}
    /\ UNCHANGED <<exc, todo, snapshot, tried, failed, ret>>
    /\ UNCHANGED <<loopVars, clusterVars, healthVars, RefreshOthers>>

\* One step of refresh(host) with the given effect.
RefreshHostStep(host, step, outcome, effect) ==
    /\ fpc = "forall_hosts"
    /\ host \in DOMAIN hostpc
    /\ hostpc[host] = step
    /\ hostpc' = [hostpc EXCEPT
                    ![host] = IF effect \in ExcKinds
                                THEN effect
                                ELSE StepAfter(step)]
    /\ bad_hosts' = IF effect = "bad_hosts"
                      THEN bad_hosts \cup {<<host, step, outcome>>}
                      ELSE bad_hosts
    /\ failures' = IF effect = "failures"
                     THEN failures \cup {<<host, step, outcome>>}
                     ELSE failures
    /\ failed' = IF outcome \in ContactFailures
                   THEN failed \cup {<<host, step>>}
                   ELSE failed
    /\ UNCHANGED <<fpc, exc, todo, snapshot, tried, ret>>
    /\ UNCHANGED <<loopVars, clusterVars, healthVars, RefreshOthers>>

RefreshCheckHost(host) ==
    \E outcome \in {"ok", "code_quiet", "code", "unreachable"} :
        RefreshHostStep(host, "check-host", outcome, CheckHostEffect(outcome))

RefreshHostDaemons(host) ==
    \E outcome \in {"ok", "code", "unreachable"} :
        RefreshHostStep(host, "ls", outcome, RefreshHostDaemonsEffect(outcome))

RefreshRegistryLogin(host) ==
    \E outcome \in {"ok", "code", "unreachable"} :
        RefreshHostStep(host, "registry-login", outcome,
                        RegistryLoginEffect(outcome))

RefreshHostDevices(host) ==
    \E outcome \in {"ok", "code", "unreachable"} :
        RefreshHostStep(host, "ceph-volume", outcome,
                        RefreshHostDevicesEffect(outcome))

RefreshHostOsdspecPreviews(host) ==
    \E outcome \in {"ok", "True"} :
        RefreshHostStep(host, "osdspec-previews", outcome,
                        RefreshHostOsdspecPreviewsEffect(outcome))

RefreshEtcCephConf(host) ==
    \E outcome \in {"ok", "code", "unreachable", "runtime"} :
        RefreshHostStep(host, "ceph.conf", outcome,
                        DeployEtcCephCephConfEffect(outcome))

\* forall_hosts hands every host to the worker pool and waits for all of
\* them; an exception of a worker is raised to the caller or dropped.
ForallHostsOutcomes ==
    ({hostpc[h] : h \in DOMAIN hostpc} \cap ExcKinds) \cup {"none"}

\* The workers are done: forall_hosts raises, or the health checks are
\* brought up to date and published if one of them changed.
RefreshJoin ==
    /\ fpc = "forall_hosts"
    /\ \A h \in DOMAIN hostpc : hostpc[h] \in {"done"} \cup ExcKinds
    /\ \E raises \in ForallHostsOutcomes :
          IF raises # "none"
            THEN /\ fpc' = "raised"
                 /\ exc' = raises
                 /\ UNCHANGED healthVars
            ELSE LET health_changed ==
                         \/ health_detail["CEPHADM_HOST_CHECK_FAILED"] # {}
                         \/ bad_hosts # {}
                         \/ failures # {}
                         \/ health_detail["CEPHADM_REFRESH_FAILED"] # {}
                     checks ==
                         [health_detail EXCEPT
                            !["CEPHADM_HOST_CHECK_FAILED"] = bad_hosts,
                            !["CEPHADM_REFRESH_FAILED"] = failures]
                 IN  /\ fpc' = "returned"
                     /\ exc' = "none"
                     /\ health_detail' = checks
                     /\ published_detail' = IF health_changed
                                              THEN checks
                                              ELSE published_detail
    /\ UNCHANGED <<todo, snapshot, tried, failed, ret>>
    /\ UNCHANGED <<loopVars, clusterVars, refreshVars, RefreshOthers>>

RefreshNext ==
    \/ RefreshBegin
    \/ \E host \in Hosts : RefreshCheckHost(host)
    \/ \E host \in Hosts : RefreshHostDaemons(host)
    \/ \E host \in Hosts : RefreshRegistryLogin(host)
    \/ \E host \in Hosts : RefreshHostDevices(host)
    \/ \E host \in Hosts : RefreshHostOsdspecPreviews(host)
    \/ \E host \in Hosts : RefreshEtcCephConf(host)
    \/ RefreshJoin

RefreshSpec == RefreshInit /\ [][RefreshNext]_vars

\* The failure x = <<host, step>> is a detail line of a health check.
IsDetailLine(x) ==
    \E k \in {"CEPHADM_HOST_CHECK_FAILED", "CEPHADM_REFRESH_FAILED"} :
        \E line \in health_detail[k] : line[1] = x[1] /\ line[2] = x[2]

\* C7 as stated: when a pass of _refresh_hosts_and_daemons is over, for every
\* host that could not be contacted in one of its steps, the worker of every
\* other host has run to its end, the pass has returned to serve() (so that
\* the later stages run), and the failure is a detail line of a health check.
C7_HostFailureStaysLocal ==
    fpc \in {"returned", "raised"} =>
        \A x \in failed :
            /\ \A g \in DOMAIN hostpc :
                  g # x[1] => hostpc[g] \in {"done"} \cup ExcKinds
            /\ fpc = "returned"
            /\ IsDetailLine(x)

\* ========================================================================
\* CheckSpec: one pass of _check_daemons
\* ========================================================================
CheckOthers == <<healthVars, refreshVars, strayVars, hostVars, serviceVars,
                 daemonVars, restVars>>

CheckInit ==
    /\ LoopIdle
    /\ spec_store \in SUBSET DaemonTypes
    /\ inventory = Hosts
    /\ cache \in Caches(Hosts)
    /\ CallsIdle
    /\ HealthIdle
    /\ FrameIdle
    /\ RefreshIdle
    /\ StrayIdle
    /\ HostIdle
    /\ ServiceIdle
    /\ RestIdle

\* "(mon and mgr specs should always exist; osds aren't matched to a service
\* spec)"
NoSpecTypes == {"mon", "mgr", "osd"}

\* "if not spec and dd.daemon_type not in ['mon', 'mgr', 'osd']"
IsOrphan(dd) == ServiceName(dd) \notin spec_store /\ dd[1] \notin NoSpecTypes

\* One agent command has run on a host.
Ran(command, host, name) == commands (+) SetToBag({<<command, host, name>>})

\* How often rm-daemon ran for the cached daemon x = <<host, name>>.
RmDaemons(x) == CopiesIn(<<"rm-daemon", x[1], x[2]>>, commands)

\* "daemons = self.cache.get_daemons()"
CheckDaemonsBegin ==
    /\ fpc = "idle"
    /\ fpc' = "check_loop"
    /\ snapshot' = CachedDaemons
    /\ todo' = CachedDaemons
    /\ UNCHANGED <<exc, tried, failed, ret>>
    /\ UNCHANGED <<loopVars, clusterVars, callVars, CheckOthers>>

\* What a call of _remove_daemon comes to: pre_remove raises; the host cannot
\* be reached (OrchestratorError from _remote_connection, nothing ran);
\* rm-daemon ran and exited non-zero (OrchestratorError from _run_cephadm);
\* rm-daemon ran and exited 0.
RemoveDaemonOutcomes == {"pre_remove", "unreachable", "exit_code", "removed"}

RemoveDaemonRaises(outcome) ==
    CASE outcome = "pre_remove" -> ExcKinds
      [] outcome = "unreachable" -> {"OrchestratorError"}
      [] outcome = "exit_code" -> {"OrchestratorError"}
      [] outcome = "removed" -> {}

\* The rest of the loop body, from "if spec and spec.unmanaged": the daemon is
\* reconfigured or not, and a failing reconfig is caught.
CheckReconfig(host, dd, log) ==
    \E reconfig \in BOOLEAN :
        commands' = IF reconfig
                      THEN log (+) SetToBag({<<"deploy", host, dd>>})
                      ELSE log

\* An orphan: self._remove_daemon(dd.name(), dd.hostname), with no try around
\* it, and then the rest of the body.
CheckDaemonsOrphan(host, dd) ==
    /\ fpc = "check_loop"
    /\ <<host, dd>> \in todo
    /\ IsOrphan(dd)
    /\ todo' = todo \ {<<host, dd>>}
    /\ \E outcome \in RemoveDaemonOutcomes :
          IF RemoveDaemonRaises(outcome) = {}
            THEN /\ cache' = [cache EXCEPT ![host] = @ \ {dd}]
                 /\ CheckReconfig(host, dd, Ran("rm-daemon", host, dd))
                 /\ UNCHANGED <<fpc, exc, failed>>
            ELSE /\ exc' \in RemoveDaemonRaises(outcome)
                 /\ fpc' = "raised"
                 /\ failed' = failed \cup {<<host, dd>>}
                 /\ commands' = IF outcome = "exit_code"
                                  THEN Ran("rm-daemon", host, dd)
                                  ELSE commands
                 /\ UNCHANGED cache
    /\ UNCHANGED <<inventory, events, snapshot, tried, ret>>
    /\ UNCHANGED <<loopVars, CheckOthers>>

\* A daemon with a spec, or a mon, mgr or osd.
CheckDaemonsManaged(host, dd) ==
    /\ fpc = "check_loop"
    /\ <<host, dd>> \in todo
    /\ ~IsOrphan(dd)
    /\ todo' = todo \ {<<host, dd>>}
    /\ CheckReconfig(host, dd, commands)
    /\ UNCHANGED <<fpc, exc, failed, snapshot, tried, ret, events>>
    /\ UNCHANGED <<loopVars, clusterVars, CheckOthers>>

CheckDaemonsReturn ==
    /\ fpc = "check_loop"
    /\ todo = {}
    /\ fpc' = "returned"
    /\ UNCHANGED <<exc, todo, snapshot, tried, failed, ret>>
    /\ UNCHANGED <<loopVars, clusterVars, callVars, CheckOthers>>

CheckNext ==
    \/ CheckDaemonsBegin
    \/ \E host \in Hosts, dd \in Daemons : CheckDaemonsOrphan(host, dd)
    \/ \E host \in Hosts, dd \in Daemons : CheckDaemonsManaged(host, dd)
    \/ CheckDaemonsReturn

CheckSpec == CheckInit /\ [][CheckNext]_vars

\* C8 as stated: when a pass of _check_daemons is over, rm-daemon has run
\* exactly once for every daemon that was cached without a spec and is no
\* mon, mgr or osd (read in the claim's favour: unless its own _remove_daemon
\* failed), and never for any other cached daemon.
C8_OneRmDaemonPerOrphan ==
    fpc \in {"returned", "raised"} =>
        \A x \in snapshot :
            IF IsOrphan(x[2])
              THEN x \in failed \/ RmDaemons(x) = 1
              ELSE RmDaemons(x) = 0

\* ========================================================================
\* StraySpec: _check_for_strays
\* ========================================================================
\* list_servers(): a daemon is listed under one host.
ServerLists ==
    {ls \in SUBSET (Hosts \X Daemons) :
        \A x, y \in ls : x[2] = y[2] => x = y}

\* A detail line left by an earlier pass.
StaleDetail == {<<d, h>> : d \in Daemons, h \in Hosts}

StrayInit ==
    /\ LoopIdle
    /\ spec_store = {}
    /\ inventory \in SUBSET Hosts
    /\ cache \in Caches(inventory)
    /\ servers \in ServerLists
    /\ warn_on_stray_hosts \in BOOLEAN
    /\ warn_on_stray_daemons \in BOOLEAN
    /\ health_detail \in
          {NoDetail, [NoDetail EXCEPT !["CEPHADM_STRAY_DAEMON"] = StaleDetail]}
    /\ published_detail = health_detail
    /\ CallsIdle
    /\ FrameIdle
    /\ RefreshIdle
    /\ HostIdle
    /\ ServiceIdle
    /\ RestIdle

\* daemon_detail with the test against the managed names left out
StrayDaemonDetailOfAll ==
    {<<DaemonName(x[2][1], x[2][2]), x[1]>> : x \in servers}

\* daemon_detail: "if name not in managed: daemon_detail.append('stray daemon
\* %s on host %s not managed by cephadm' % (name, host))"
StrayDaemonDetail ==
    {<<DaemonName(x[2][1], x[2][2]), x[1]>> :
        x \in {y \in servers :
                 DaemonName(y[2][1], y[2][2]) \notin CachedNames}}

\* host_detail: one line per listed host that is not in the inventory
StrayHostDetail ==
    {<<h, {DaemonName(x[2][1], x[2][2]) :
             x \in {y \in servers : y[1] = h}}>> :
        h \in {x[1] : x \in servers} \ inventory}

\* The whole of _check_for_strays: both checks are deleted, computed again
\* if their warning is on, and the health checks are published.
CheckForStrays ==
    /\ fpc = "idle"
    /\ fpc' = "returned"
    /\ LET scan == warn_on_stray_hosts \/ warn_on_stray_daemons
       IN  health_detail' =
             [health_detail EXCEPT
                !["CEPHADM_STRAY_HOST"] =
                    IF scan /\ warn_on_stray_hosts
                      THEN StrayHostDetail ELSE {},
                !["CEPHADM_STRAY_DAEMON"] =
                    IF scan /\ warn_on_stray_daemons
                      THEN StrayDaemonDetail ELSE {}]
    /\ published_detail' = health_detail'
    /\ UNCHANGED <<exc, todo, snapshot, tried, failed, ret>>
    /\ UNCHANGED <<loopVars, clusterVars, callVars, refreshVars, strayVars,
                   hostVars, serviceVars, daemonVars, restVars>>

\* The cluster's server list changes and the check is due again.
ListServersChanges ==
    /\ fpc = "returned"
    /\ fpc' = "idle"
    /\ \E x \in servers : servers' = servers \ {x}
    /\ UNCHANGED <<warn_on_stray_hosts, warn_on_stray_daemons>>
    /\ UNCHANGED <<exc, todo, snapshot, tried, failed, ret>>
    /\ UNCHANGED <<loopVars, clusterVars, callVars, healthVars, refreshVars,
                   hostVars, serviceVars, daemonVars, restVars>>

StrayNext ==
    \/ CheckForStrays
    \/ ListServersChanges

StraySpec == StrayInit /\ [][StrayNext]_vars

\* The listed daemons whose name no host of the HostCache has.
ListedUnmanaged == {x \in servers : x[2] \notin CachedNames}

\* C9: when _check_for_strays has returned with warn_on_stray_daemons set,
\* the published CEPHADM_STRAY_DAEMON check has exactly one detail line for
\* each daemon of the server list whose name is not a HostCache daemon name
\* (and is absent when there is none); and no step of _check_for_strays runs
\* an agent command or changes HostCache, Inventory or SpecStore.
C9_StraysReportedNotRemoved ==
    /\ [](fpc = "returned" /\ warn_on_stray_daemons =>
            /\ \A x \in ListedUnmanaged :
                  <<x[2], x[1]>> \in published_detail["CEPHADM_STRAY_DAEMON"]
            /\ \A line \in published_detail["CEPHADM_STRAY_DAEMON"] :
                  <<line[2], line[1]>> \in ListedUnmanaged
            /\ Cardinality(published_detail["CEPHADM_STRAY_DAEMON"])
                  = Cardinality(ListedUnmanaged))
    /\ [][fpc = "idle" /\ fpc' = "returned" =>
            UNCHANGED <<cache, inventory, spec_store, commands>>]_vars
    /\ [](commands = EmptyBag)

\* C9 witness: of two listed daemons one is cached and one is not, and the
\* check has been published with the one line.
C9_Witness ==
    /\ fpc = "returned"
    /\ warn_on_stray_daemons
    /\ Cardinality(published_detail["CEPHADM_STRAY_DAEMON"]) = 1
    /\ Cardinality(servers) = 2
    /\ \E x \in servers : x[2] \in CachedNames

\* ========================================================================
\* HostSpec: construction, add_host, remove_host; each call runs to its end
\* ========================================================================
HostOthers == <<callVars, healthVars, refreshVars, strayVars, serviceVars,
                daemonVars, restVars>>

\* What the stores hold when the module is constructed: the inventory and
\* the host cache are loaded one after the other and need not agree.
HostInit ==
    /\ LoopIdle
    /\ spec_store = {}
    /\ inventory \in SUBSET Hosts
    /\ cache \in UNION {Caches(hs) : hs \in SUBSET Hosts}
    /\ fpc = "unbuilt"
    /\ exc = "none"
    /\ todo = {}
    /\ snapshot = {}
    /\ tried = <<>>
    /\ failed = {}
    /\ ret = FALSE
    /\ CallsIdle
    /\ HealthIdle
    /\ RefreshIdle
    /\ StrayIdle
    /\ HostIdle
    /\ ServiceIdle
    /\ RestIdle

\* HostCache.prime_empty_host(host)
PrimeEmptyHost(c, host) ==
    [h \in DOMAIN c \cup {host} |-> IF h = host THEN {} ELSE c[h]]

\* HostCache.rm_host(host)
RmHost(c, host) == [h \in DOMAIN c \ {host} |-> c[h]]

\* __init__, "ensure the host lists are in sync": every inventory host
\* without a cache entry is primed empty, then every cache host that is not
\* in the inventory is removed.
Construct ==
    /\ fpc = "unbuilt"
    /\ fpc' = "idle"
    /\ LET primed == [h \in DOMAIN cache \cup inventory |->
                         IF h \in DOMAIN cache THEN cache[h] ELSE {}]
       IN  cache' = [h \in DOMAIN primed \cap inventory |-> primed[h]]
    /\ UNCHANGED <<inventory, exc, todo, snapshot, tried, failed, ret>>
    /\ UNCHANGED <<loopVars, hostVars, HostOthers>>

\* remove_host that forgets self.cache.rm_host(host)
RemoveHostCacheKept(host) == cache

\* remove_host: "self.cache.rm_host(host)"
RemoveHostCache(host) == RmHost(cache, host)

\* _add_host(spec): check-host on the new host; if it fails (or the host
\* cannot be reached) or Inventory.add_host rejects a host it already has,
\* the call raises and nothing has changed; else the host is in the
\* inventory with an empty cache entry.
AddHost(host) ==
    /\ fpc = "idle"
    /\ \E check \in {"ok", "code", "unreachable"} :
          IF check = "ok" /\ host \notin inventory
            THEN /\ inventory' = inventory \cup {host}
                 /\ cache' = PrimeEmptyHost(cache, host)
                 /\ fresh' = fresh \cup {host}
                 /\ exc' = "none"
            ELSE /\ exc' = "OrchestratorError"
                 /\ UNCHANGED <<inventory, cache, fresh>>
    /\ UNCHANGED <<ghosts, fpc, todo, snapshot, tried, failed, ret>>
    /\ UNCHANGED <<loopVars, HostOthers>>

\* remove_host(host): Inventory.rm_host raises for a host it does not have;
\* else the host leaves the inventory and the cache.
RemoveHost(host) ==
    /\ fpc = "idle"
    /\ IF host \in inventory
         THEN /\ inventory' = inventory \ {host}
              /\ cache' = RemoveHostCache(host)
              /\ fresh' = fresh \ {host}
              /\ ghosts' = IF host \in DOMAIN cache /\ cache[host] # {}
                             THEN ghosts \cup {host}
                             ELSE ghosts
              /\ exc' = "none"
         ELSE /\ exc' = "OrchestratorError"
              /\ UNCHANGED <<inventory, cache, fresh, ghosts>>
    /\ UNCHANGED <<fpc, todo, snapshot, tried, failed, ret>>
    /\ UNCHANGED <<loopVars, HostOthers>>

\* Between two calls the serve loop refreshes a cached host:
\* _refresh_host_daemons ends in self.cache.update_host_daemons(host, dm).
UpdateHostDaemons(host, dm) ==
    /\ fpc = "idle"
    /\ host \in DOMAIN cache
    /\ \A h \in DOMAIN cache \ {host} : cache[h] \cap dm = {}
    /\ cache' = [cache EXCEPT ![host] = dm]
    /\ fresh' = fresh \ {host}
    /\ ghosts' = ghosts \ {host}
    /\ UNCHANGED <<inventory, fpc, exc, todo, snapshot, tried, failed, ret>>
    /\ UNCHANGED <<loopVars, HostOthers>>

HostNext ==
    \/ Construct
    \/ \E host \in Hosts : AddHost(host)
    \/ \E host \in Hosts : RemoveHost(host)
    \/ \E host \in Hosts, dm \in SUBSET Daemons : UpdateHostDaemons(host, dm)

HostSpec == HostInit /\ [][HostNext]_vars

\* C10: once the module is constructed, and after every add_host and
\* remove_host call that has run to its end, the hosts with a HostCache entry
\* are the hosts of the Inventory; and a host that has been added and not
\* refreshed since has an empty daemon map, whatever was cached for it when
\* it was removed.
C10_HostListsInSync ==
    fpc = "idle" =>
        /\ DOMAIN cache = inventory
        /\ \A h \in fresh : h \in DOMAIN cache /\ cache[h] = {}

\* C10 witness: a host was removed while daemons were cached for it, was
\* added again and has not been refreshed since.
C10_Witness ==
    /\ fpc = "idle"
    /\ \E h \in fresh \cap ghosts : h \in inventory

\* C11 as stated: a command handler leaves the HostCache and the agent alone;
\* here the two host handlers, add_host and remove_host.
C11_HandlersLeaveCacheAlone ==
    [][(\E host \in Hosts : AddHost(host) \/ RemoveHost(host)) =>
            UNCHANGED <<cache, commands>>]_vars

\* ========================================================================
\* StoreSpec: apply and remove_service on the SpecStore
\* ========================================================================
MaxStored == 1

StoreOthers == <<clusterVars, callVars, healthVars, frameVars, refreshVars,
                 strayVars, hostVars, daemonVars, restVars>>

\* PlacementSpec(): nothing set
NoPlacement == [count |-> <<>>, host_pattern |-> "", hosts |-> {}]

\* PlacementSpec(count=n)
PlacementCount(n) == [NoPlacement EXCEPT !.count = <<n>>]

\* PlacementSpec(host_pattern=pattern)
PlacementPattern(pattern) == [NoPlacement EXCEPT !.host_pattern = pattern]

\* spec.placement.is_empty()
IsEmpty(placement) ==
    /\ placement.count = <<>>
    /\ placement.host_pattern = ""
    /\ placement.hosts = {}

\* _apply_service_spec: "defaults"
defaults ==
    [type \in {"mon", "mgr", "mds", "rgw", "iscsi", "rbd-mirror", "nfs",
               "grafana", "alertmanager", "prometheus", "node-exporter",
               "crash"} |->
        CASE type = "mon" -> PlacementCount(5)
          [] type = "mgr" -> PlacementCount(2)
          [] type = "mds" -> PlacementCount(2)
          [] type = "rgw" -> PlacementCount(2)
          [] type = "iscsi" -> PlacementCount(1)
          [] type = "rbd-mirror" -> PlacementCount(2)
          [] type = "nfs" -> PlacementCount(1)
          [] type = "grafana" -> PlacementCount(1)
          [] type = "alertmanager" -> PlacementCount(1)
          [] type = "prometheus" -> PlacementCount(1)
          [] type = "node-exporter" -> PlacementPattern("*")
          [] type = "crash" -> PlacementPattern("*")]

\* The placements the specs are applied with.
AppliedPlacements ==
    {NoPlacement, PlacementCount(0), PlacementCount(3), PlacementPattern("*"),
     [NoPlacement EXCEPT !.hosts = Hosts]}

\* The handled command: <<handler, service, placement, result>>
Handled(op, name, placement, result) == <<op, name, placement, result>>

\* an _apply_service_spec that stores the placement it was given, empty or not
FillPlacementNever(type, placement) == placement

\* _apply_service_spec: "if spec.placement.is_empty(): spec.placement =
\* defaults[spec.service_type]"
FillPlacement(type, placement) ==
    IF IsEmpty(placement) THEN defaults[type] ELSE placement

\* an _apply_service_spec without the check on the count of mon and mgr
ScaleBelowOneAllowed(type, placement) == FALSE

\* _apply_service_spec: "elif spec.service_type in ['mon', 'mgr'] and
\* spec.placement.count is not None and spec.placement.count < 1"
ScaleBelowOne(type, placement) ==
    /\ ~IsEmpty(placement)
    /\ type \in {"mon", "mgr"}
    /\ placement.count # <<>>
    /\ placement.count[1] < 1

\* _apply_service_spec(spec): a KeyError for an empty placement of a type
\* without a default, an OrchestratorError for a mon or mgr count below 1 or
\* when HostAssignment.validate() rejects the spec; else the spec is saved
\* and the loop is kicked.
ApplyServiceSpecPlaced(type, placement) ==
    /\ fpc = "idle"
    /\ type \in spec_store \/ Cardinality(spec_store) < MaxStored
    /\ \E valid \in BOOLEAN :
          LET result ==
                  IF IsEmpty(placement) /\ type \notin DOMAIN defaults
                    THEN "KeyError"
                    ELSE IF ScaleBelowOne(type, placement) \/ ~valid
                           THEN "OrchestratorError"
                           ELSE "Scheduled"
          IN  /\ call' = Handled("apply", type, placement, result)
              /\ IF result = "Scheduled"
                   THEN /\ spec_store' = spec_store \cup {type}
                        /\ placements' =
                               [s \in spec_store \cup {type} |->
                                   IF s = type
                                     THEN FillPlacement(type, placement)
                                     ELSE placements[s]]
                        /\ KickServeLoop
                   ELSE UNCHANGED <<spec_store, placements, event>>
    /\ UNCHANGED <<run, paused, pc, health_checks, published,
                   migration_ongoing, hpc, loopHist, pending, resumed,
                   after_resume, gated_before>>
    /\ UNCHANGED <<applying, daemons, remove_daemon_hosts, asked, plan>>
    /\ UNCHANGED StoreOthers

\* a remove_service that kicks the loop whether it found the spec or not
RemoveServiceKickAlways(found) == TRUE

\* remove_service: "if found: self._kick_serve_loop()"
RemoveServiceKick(found) == IF found THEN TRUE ELSE event

\* remove_service(service_name): self.spec_store.rm(service_name) tells
\* whether it found the spec; both answers are returned as a message.
RemoveServiceNamed(name) ==
    /\ fpc = "idle"
    /\ LET found == name \in spec_store
       IN  /\ spec_store' = spec_store \ {name}
           /\ placements' = [s \in spec_store \ {name} |-> placements[s]]
           /\ event' = RemoveServiceKick(found)
           /\ call' = Handled("remove_service", name, NoPlacement,
                              IF found THEN "Removed" ELSE "not found")
    /\ UNCHANGED <<run, paused, pc, health_checks, published,
                   migration_ongoing, hpc, loopHist, pending, resumed,
                   after_resume, gated_before>>
    /\ UNCHANGED <<applying, daemons, remove_daemon_hosts, asked, plan>>
    /\ UNCHANGED StoreOthers

\* _serve_sleep: the loop was woken and has cleared the event
EventCleared ==
    /\ fpc = "idle"
    /\ event
    /\ event' = FALSE
    /\ UNCHANGED <<run, paused, pc, health_checks, published,
                   migration_ongoing, spec_store, hpc, loopHist, pending,
                   resumed, after_resume, gated_before>>
    /\ UNCHANGED <<serviceVars, StoreOthers>>

StoreInit ==
    /\ LoopIdle
    /\ spec_store = {}
    /\ StagesIdle

StoreNext ==
    \/ \E type \in Range(ServiceTypes), placement \in AppliedPlacements :
          ApplyServiceSpecPlaced(type, placement)
    \/ \E name \in Range(ServiceTypes) : RemoveServiceNamed(name)
    \/ EventCleared

StoreSpec == StoreInit /\ [][StoreNext]_vars

\* C14: the spec an accepted apply has just saved carries, for an empty
\* placement, count=5 (mon), count=2 (mgr, mds, rgw, rbd-mirror), count=1
\* (iscsi, nfs, grafana, alertmanager, prometheus) or host_pattern='*'
\* (node-exporter, crash) and nothing else; for any other placement, that
\* placement.
C14_DefaultPlacements ==
    (call # <<>> /\ call[1] = "apply" /\ call[4] = "Scheduled") =>
        /\ call[2] \in spec_store
        /\ LET type == call[2]
               stored == placements[call[2]]
               counted == IF type = "mon" THEN {5}
                          ELSE IF type \in {"mgr", "mds", "rgw", "rbd-mirror"}
                                 THEN {2}
                          ELSE IF type \in {"iscsi", "nfs", "grafana",
                                            "alertmanager", "prometheus"}
                                 THEN {1}
                          ELSE {}
           IN  IF call[3] = NoPlacement
                 THEN /\ stored.hosts = {}
                      /\ Range(stored.count) = counted
                      /\ stored.host_pattern =
                             (IF type \in {"node-exporter", "crash"}
                                THEN "*" ELSE "")
                      /\ counted # {} \/ type \in {"node-exporter", "crash"}
                 ELSE stored = call[3]

\* C14 witness: crash has just been applied with an empty placement, the
\* loop not having consumed an earlier wake-up.
C14_Witness ==
    /\ call # <<>>
    /\ call[1] = "apply"
    /\ call[2] = "crash"
    /\ call[3] = NoPlacement
    /\ call[4] = "Scheduled"
    /\ placements["crash"].host_pattern = "*"

C15_RemoveStep == call' # call /\ call'[1] = "remove_service"

\* C15: remove_service for a name that is not stored returns its message
\* (no error) and changes neither the SpecStore nor the wake event; the name
\* is not stored afterwards, and a remove_service that follows a
\* remove_service of the same name changes nothing in the SpecStore.
C15_RemoveServiceIdempotent ==
    [][C15_RemoveStep =>
          /\ call'[4] \in {"Removed", "not found"}
          /\ call'[2] \notin spec_store'
          /\ call'[2] \notin spec_store =>
                 /\ call'[4] = "not found"
                 /\ UNCHANGED <<spec_store, placements, event>>
          /\ (call # <<>> /\ call[1] = "remove_service" /\ call[2] = call'[2])
                 => UNCHANGED <<spec_store, placements>>]_vars

\* C15 witness: a service that is not stored has just been removed, with the
\* event clear and another spec stored.
C15_Witness ==
    /\ call # <<>>
    /\ call[1] = "remove_service"
    /\ call[4] = "not found"
    /\ ~event
    /\ spec_store # {}

\* ========================================================================
\* ServiceSpec: a spec is applied and _apply_service runs on it once, with
\* _create_daemon and _remove_daemon
\* ========================================================================
MaxSuffix == 2
MaxExisting == 2

ServiceOthers == <<healthVars, refreshVars, strayVars, hostVars, restVars>>

\* host.split('.')[0]: hosts of one short name differ in their domain
ShortHost(host) == host \div 2

\* Daemon ids, as the parts that the dots separate: shortHost,
\* shortHost.suffix, and a name that no host gives.
DaemonIds ==
    {<<ShortHost(h)>> : h \in Hosts} \cup
    {<<ShortHost(h), x>> : h \in Hosts, x \in 1..MaxSuffix} \cup
    {<<MaxHosts>>}

\* a get_unique_name that hands out a name without looking at "existing"
GetUniqueNameUnchecked(daemon_type, host, existing, forcename) ==
    IF forcename # <<>>
      THEN {<<"name", forcename>>}
      ELSE IF daemon_type \in {"mon", "crash", "nfs", "prometheus",
                               "node-exporter", "grafana", "alertmanager"}
             THEN {<<"name", <<ShortHost(host)>>>>}
             ELSE {<<"name", <<ShortHost(host), x>>>> : x \in 1..MaxSuffix}

\* get_unique_name(daemon_type, host, existing, forcename=forcename), no
\* prefix: what it returns (<<"name", id>>) or that it raises (<<"in use",
\* id>>).  A suffix is drawn again until the name is free.
GetUniqueName(daemon_type, host, existing, forcename) ==
    IF forcename # <<>>
      THEN {<<IF forcename \in existing THEN "in use" ELSE "name", forcename>>}
      ELSE IF daemon_type \in {"mon", "crash", "nfs", "prometheus",
                               "node-exporter", "grafana", "alertmanager"}
             THEN {<<IF <<ShortHost(host)>> \in existing
                       THEN "in use" ELSE "name",
                     <<ShortHost(host)>>>>}
             ELSE {<<"name", <<ShortHost(host), x>>>> :
                      x \in {y \in 1..MaxSuffix :
                                <<ShortHost(host), y>> \notin existing}}

\* a _create_daemon that registers no type for post actions
PostActionTypesNone == {}

\* _create_daemon: "if daemon_spec.daemon_type in ['grafana', 'iscsi',
\* 'prometheus', 'alertmanager', 'nfs']"
PostActionTypes == {"grafana", "iscsi", "prometheus", "alertmanager", "nfs"}

\* _create_daemon(daemon_spec): the host cannot be reached (nothing ran,
\* OrchestratorError); deploy ran and exited non-zero (_run_cephadm raises
\* OrchestratorError: no error_ok); deploy ran and exited 0.
CreateDaemon(host, dd, outcome) ==
    /\ commands' = IF outcome = "deploy unreachable"
                     THEN commands
                     ELSE Ran("deploy", host, dd)
    /\ IF outcome = "deployed"
         THEN /\ IF host \in DOMAIN cache
                   THEN /\ cache' = [cache EXCEPT ![host] = @ \cup {dd}]
                        /\ starting' = starting \cup {<<host, dd>>}
                        /\ requires_post_actions' =
                               requires_post_actions \cup
                                   ({dd[1]} \cap PostActionTypes)
                   ELSE UNCHANGED <<cache, starting, requires_post_actions>>
              /\ invalidated' = invalidated \cup {host}
              /\ daemon_config_deps' = daemon_config_deps \cup {<<host, dd>>}
              /\ events' = events \cup {<<"daemon", dd, "INFO">>}
         ELSE UNCHANGED <<cache, events, daemonVars>>

\* a _remove_daemon that leaves the daemon in the cache
RemoveDaemonCacheKept(host, dd, code) == cache

\* _remove_daemon: "if not code: self.cache.rm_daemon(host, name)"
RemoveDaemonCache(host, dd, code) ==
    IF code = 0 THEN [cache EXCEPT ![host] = @ \ {dd}] ELSE cache

\* an _apply_service that removes what ok_to_stop refused
AfterOkToStopIgnored(ok) == "remove"

\* "while remove_daemon_hosts and not _ok_to_stop(remove_daemon_hosts)"
AfterOkToStop(ok) == IF ok THEN "remove" ELSE "add"

\* The module has run for a while: daemons of the service are cached, under
\* any ids, and a host of the inventory may have no cache entry.
ServiceInit ==
    /\ LoopIdle
    /\ spec_store = {}
    /\ inventory = Hosts
    /\ \E type \in Range(ServiceTypes) :
          /\ applying = <<type>>
          /\ \E cached \in {Hosts, Hosts \ {MaxHosts}} :
                cache \in {c \in [cached -> SUBSET ({type} \X DaemonIds)] :
                              /\ \A g, h \in cached :
                                    g # h => c[g] \cap c[h] = {}
                              /\ Cardinality(UNION {c[h] : h \in cached})
                                     <= MaxExisting}
    /\ CallsIdle
    /\ HealthIdle
    /\ FrameIdle
    /\ RefreshIdle
    /\ StrayIdle
    /\ HostIdle
    /\ placements = <<>>
    /\ call = <<>>
    /\ daemons = {}
    /\ remove_daemon_hosts = {}
    /\ asked = {}
    /\ plan = <<>>
    /\ starting = {}
    /\ invalidated = {}
    /\ daemon_config_deps = {}
    /\ requires_post_actions = {}
    /\ RestIdle

\* _apply_service(spec) up to its first loop.  HostAssignment places the spec
\* on some of the candidate hosts, at most "count" of them; the hosts that
\* receive a daemon are the placed hosts without a daemon of the service, the
\* daemons to remove are those on the other hosts.
ApplyServiceBegin ==
    /\ fpc = "idle"
    /\ applying[1] \in spec_store
    /\ LET type == applying[1]
           placement == placements[applying[1]]
           existing == UNION {{<<h, dd>> : dd \in cache[h]} : h \in DOMAIN cache}
           candidates == IF placement.hosts # {}
                           THEN placement.hosts \cap inventory
                           ELSE inventory
       IN  \E hosts \in SUBSET candidates :
              /\ placement.count # <<>> =>
                     Cardinality(hosts) <= placement.count[1]
              /\ IF type = "osd"
                   THEN /\ fpc' = "returned"
                        /\ UNCHANGED <<daemons, snapshot, plan, todo,
                                       remove_daemon_hosts>>
                   ELSE LET add == {h \in hosts :
                                       \A x \in existing : x[1] # h}
                            remove == {x \in existing : x[1] \notin hosts}
                            none == type \in {"mon", "mgr"} /\
                                    Cardinality(hosts) < 1
                        IN  /\ daemons' = {x[2][2] : x \in existing}
                            /\ snapshot' = existing
                            /\ plan' = IF none THEN <<hosts, {}, {}>>
                                               ELSE <<hosts, add, remove>>
                            /\ fpc' = IF none THEN "returned" ELSE "add"
                            /\ todo' = IF none THEN {} ELSE add
                            /\ remove_daemon_hosts' =
                                   IF none THEN {} ELSE remove
    /\ UNCHANGED <<exc, tried, failed, ret, asked, applying, placements, call>>
    /\ UNCHANGED <<loopVars, clusterVars, callVars, daemonVars, ServiceOthers>>

\* "for host, network, name in add_daemon_hosts": get_unique_name, then
\* create(daemon_spec), which is _create_daemon; the new daemon is appended
\* to the local list.  Nothing here is caught.
ApplyServiceAdd(host) ==
    /\ fpc = "add"
    /\ host \in todo
    /\ \E forcename \in {<<>>, <<ShortHost(1)>>, <<MaxHosts>>} :
          /\ forcename = <<>> \/ placements[applying[1]].hosts # {}
          /\ \E got \in GetUniqueName(applying[1], host, daemons, forcename),
                outcome \in {"deploy unreachable", "deploy failed",
                             "deployed"} :
                LET dd == DaemonName(applying[1], got[2])
                    done == IF got[1] = "in use" THEN "in use" ELSE outcome
                IN  /\ tried' = Append(tried, <<done, host, dd, forcename>>)
                    /\ IF done = "in use"
                         THEN UNCHANGED <<cache, commands, events, daemonVars>>
                         ELSE CreateDaemon(host, dd, outcome)
                    /\ IF done = "deployed"
                         THEN /\ daemons' = daemons \cup {got[2]}
                              /\ ret' = TRUE
                              /\ todo' = todo \ {host}
                              /\ UNCHANGED <<fpc, exc>>
                         ELSE /\ fpc' = "raised"
                              /\ exc' = "OrchestratorError"
                              /\ UNCHANGED <<daemons, ret, todo>>
    /\ UNCHANGED <<inventory, snapshot, failed, remove_daemon_hosts, asked,
                   plan, applying, placements, call>>
    /\ UNCHANGED <<loopVars, ServiceOthers>>

\* an _apply_service that turns to the removals while hosts wait for their
\* daemon
AddsDoneEarly == TRUE

\* "for host, network, name in add_daemon_hosts" has run to its end
AddsDone == todo = {}

\* "while remove_daemon_hosts and not _ok_to_stop(remove_daemon_hosts):
\* remove_daemon_hosts.pop()": the driver answers as it likes, and pop()
\* takes any one daemon out of the set.
ApplyServiceOkToStop ==
    /\ fpc = "add"
    /\ AddsDone
    /\ remove_daemon_hosts # {}
    /\ \E ok \in BOOLEAN, d \in remove_daemon_hosts :
          /\ asked' = asked \cup {<<remove_daemon_hosts, ok>>}
          /\ remove_daemon_hosts' = IF ok THEN remove_daemon_hosts
                                          ELSE remove_daemon_hosts \ {d}
          /\ fpc' = AfterOkToStop(ok)
          /\ todo' = IF fpc' = "remove" THEN remove_daemon_hosts' ELSE {}
    /\ UNCHANGED <<exc, snapshot, tried, failed, ret, daemons, plan, applying,
                   placements, call>>
    /\ UNCHANGED <<loopVars, clusterVars, callVars, daemonVars, ServiceOthers>>

\* "for d in remove_daemon_hosts: self._remove_daemon(d.name(), d.hostname)";
\* _remove_daemon calls pre_remove, then runs rm-daemon, then takes the daemon
\* out of the cache and invalidates the host's daemon cache.  Nothing here is
\* caught.
ApplyServiceRemove(host, dd) ==
    /\ fpc = "remove"
    /\ <<host, dd>> \in todo
    /\ \E outcome \in RemoveDaemonOutcomes :
          /\ tried' = tried \o
                 (IF outcome = "pre_remove"
                    THEN <<<<"pre_remove raised", host, dd, <<>>>>>>
                    ELSE <<<<"pre_remove", host, dd, <<>>>>,
                           <<outcome, host, dd, <<>>>>>>)
          /\ IF RemoveDaemonRaises(outcome) = {}
               THEN /\ commands' = Ran("rm-daemon", host, dd)
                    /\ cache' = RemoveDaemonCache(host, dd, 0)
                    /\ invalidated' = invalidated \cup {host}
                    /\ ret' = TRUE
                    /\ todo' = todo \ {<<host, dd>>}
                    /\ UNCHANGED <<fpc, exc, failed>>
               ELSE /\ commands' = IF outcome = "exit_code"
                                     THEN Ran("rm-daemon", host, dd)
                                     ELSE commands
                    /\ exc' \in RemoveDaemonRaises(outcome)
                    /\ fpc' = "raised"
                    /\ failed' = failed \cup {<<host, dd>>}
                    /\ UNCHANGED <<cache, invalidated, ret, todo>>
    /\ UNCHANGED <<inventory, events, starting, daemon_config_deps,
                   requires_post_actions, snapshot, serviceVars>>
    /\ UNCHANGED <<loopVars, ServiceOthers>>

\* "return r"
ApplyServiceReturn ==
    /\ \/ fpc = "add" /\ todo = {} /\ remove_daemon_hosts = {}
       \/ fpc = "remove" /\ todo = {}
    /\ fpc' = "returned"
    /\ UNCHANGED <<exc, todo, snapshot, tried, failed, ret, serviceVars>>
    /\ UNCHANGED <<loopVars, clusterVars, callVars, daemonVars, ServiceOthers>>

\* One apply of the service, then one pass.
ServiceNext ==
    \/ /\ call = <<>>
       /\ \E placement \in AppliedPlacements :
             ApplyServiceSpecPlaced(applying[1], placement)
    \/ ApplyServiceBegin
    \/ \E host \in Hosts : ApplyServiceAdd(host)
    \/ ApplyServiceOkToStop
    \/ \E host \in Hosts, id \in DaemonIds :
          ApplyServiceRemove(host, DaemonName(applying[1], id))
    \/ ApplyServiceReturn
    \/ EventCleared

ServiceSpec == ServiceInit /\ [][ServiceNext]_vars

\* The entries of the pass's log with one of the given outcomes.
Logged(outcomes) == {i \in 1..Len(tried) : tried[i][1] \in outcomes}

\* The daemons for which rm-daemon ran in this pass.
Issued == {<<tried[i][2], tried[i][3]>> : i \in Logged({"removed", "exit_code"})}

\* The sets on which ok_to_stop answered OK.
Approved == {a[1] : a \in {b \in asked : b[2]}}

C12_Gate ==
    /\ Issued \subseteq plan[3]
    /\ Cardinality({a \in asked : ~a[2]}) =
           Cardinality(plan[3] \ remove_daemon_hosts)
    /\ Cardinality({a \in asked : ~a[2]}) <= Cardinality(plan[3])
    /\ Approved = {} => Issued = {}

\* C12 (as amended): the daemons for which rm-daemon ran are daemons of the
\* Scheduler's to_remove and, unless there are none, all belong to one set on
\* which ok_to_stop answered OK; they are the whole of that set once
\* _apply_service has returned (a _remove_daemon that raises ends the
\* removals).  Each veto has dropped exactly one candidate, so there are at
\* most |to_remove| vetoes, and nothing is removed when no set was approved.
C12_RemovesOnlyOkToStop ==
    plan # <<>> =>
        /\ C12_Gate
        /\ Issued = {} \/ \E set \in Approved :
                              /\ Issued \subseteq set
                              /\ fpc = "returned" => Issued = set

\* C12 witness: ok_to_stop refused the two daemons to remove, one was
\* dropped, the other one was approved and removed.
C12_Witness ==
    /\ fpc = "returned"
    /\ plan # <<>>
    /\ Cardinality(plan[3]) = 2
    /\ Cardinality(Issued) = 1
    /\ Cardinality(asked) = 2

\* C12 as stated: when the pass is over, rm-daemon has run for no daemon or
\* for exactly the daemons of a set that ok_to_stop approved.
C12_Original ==
    (plan # <<>> /\ fpc \in {"returned", "raised"}) =>
        /\ C12_Gate
        /\ Issued = {} \/ Issued \in Approved

C13_RejectedStep ==
    /\ call' # call
    /\ call'[1] = "apply"
    /\ call'[2] \in {"mon", "mgr"}
    /\ call'[3].count # <<>>
    /\ call'[3].count[1] < 1

\* C13: an apply of a mon or mgr spec with a count below 1 raises and leaves
\* the SpecStore and the wake event as they were; and _apply_service on a mon
\* or mgr spec that HostAssignment placed on no host returns without a deploy
\* or an rm-daemon.
C13_ScaleBelowOneRejected ==
    /\ [][C13_RejectedStep =>
            /\ call'[4] = "OrchestratorError"
            /\ UNCHANGED <<spec_store, placements, event>>]_vars
    /\ []((plan # <<>> /\ applying[1] \in {"mon", "mgr"} /\ plan[1] = {}) =>
            /\ commands = EmptyBag
            /\ tried = <<>>
            /\ fpc = "returned")

\* C13 witness: mons are cached, the stored mon spec was placed on no host
\* and _apply_service has returned.
C13_Witness ==
    /\ plan # <<>>
    /\ applying[1] = "mon"
    /\ plan[1] = {}
    /\ snapshot # {}
    /\ fpc = "returned"

\* C17: the ids get_unique_name returned in this pass differ from each other
\* and from the ids of the service's cached daemons; a forcename is returned
\* as it is; without one the id is shortHost for mon, crash, nfs, prometheus,
\* node-exporter, grafana, alertmanager and shortHost.suffix otherwise; and
\* it raised only for a forcename or a shortHost that was taken.
C17_UniqueNames ==
    LET named == Logged({"deployed", "deploy failed", "deploy unreachable"})
        bare == {"mon", "crash", "nfs", "prometheus", "node-exporter",
                 "grafana", "alertmanager"}
    IN  /\ \A i, j \in named : i # j => tried[i][3] # tried[j][3]
        /\ \A i \in named :
               /\ \A x \in snapshot : x[2] # tried[i][3]
               /\ tried[i][4] # <<>> => tried[i][3][2] = tried[i][4]
               /\ tried[i][4] = <<>> =>
                      IF applying[1] \in bare
                        THEN tried[i][3][2] = <<ShortHost(tried[i][2])>>
                        ELSE /\ Len(tried[i][3][2]) = 2
                             /\ tried[i][3][2][1] = ShortHost(tried[i][2])
        /\ \A i \in Logged({"in use"}) :
               /\ tried[i][4] # <<>> \/ applying[1] \in bare
               /\ \/ \E x \in snapshot : x[2] = tried[i][3]
                  \/ \E j \in named : j < i /\ tried[j][3] = tried[i][3]

\* C17 witness: a daemon was deployed under a forced name, and the next host
\* would have given the same name: get_unique_name raised.
C17_Witness ==
    \E i \in Logged({"deployed"}), j \in Logged({"in use"}) :
        /\ tried[i][3] = tried[j][3]
        /\ tried[i][4] # <<>>
        /\ tried[j][4] = <<>>

\* C18: for every deploy of this pass that exited 0 on a host with a cache
\* entry, the daemon is cached under that host with status 1 'starting', the
\* host's daemon cache is invalidated, its (deps, time) are recorded, it has
\* an INFO event, and its type is in requires_post_actions exactly if it is
\* grafana, iscsi, prometheus, alertmanager or nfs.
C18_DeployedIsCached ==
    \A i \in Logged({"deployed"}) :
        LET host == tried[i][2]
            dd == tried[i][3]
        IN  host \in DOMAIN cache =>
                /\ dd \in cache[host]
                /\ <<host, dd>> \in starting
                /\ host \in invalidated
                /\ <<host, dd>> \in daemon_config_deps
                /\ <<"daemon", dd, "INFO">> \in events
                /\ dd[1] \in requires_post_actions <=>
                       dd[1] \in {"grafana", "iscsi", "prometheus",
                                  "alertmanager", "nfs"}

\* C18 witness: the pass deployed an nfs daemon on a host with a cache entry
\* and another one on a host without, and returned.
C18_Witness ==
    /\ fpc = "returned"
    /\ applying[1] = "nfs"
    /\ \E i, j \in Logged({"deployed"}) :
          tried[i][2] \in DOMAIN cache /\ tried[j][2] \notin DOMAIN cache

\* C19 as stated: for every deploy that exited non-zero the daemon has an
\* ERROR event and is not in the cache.
C19_FailedDeployHasErrorEvent ==
    \A i \in Logged({"deploy failed"}) :
        /\ <<"daemon", tried[i][3], "ERROR">> \in events
        /\ \A h \in DOMAIN cache : tried[i][3] \notin cache[h]

\* C20: in every _remove_daemon of this pass pre_remove was called right
\* before rm-daemon ran; rm-daemon ran at most once for a daemon; a daemon to
\* remove has left the cache exactly if its rm-daemon exited 0, and one whose
\* removal failed is still cached.
C20_RemoveDaemonOnce ==
    /\ \A i \in Logged({"removed", "exit_code"}) :
           /\ i > 1
           /\ tried[i - 1] = <<"pre_remove", tried[i][2], tried[i][3], <<>>>>
    /\ \A x \in snapshot :
           /\ RmDaemons(x) <= 1
           /\ x[2] \notin cache[x[1]] <=>
                  \E i \in Logged({"removed"}) :
                      tried[i][2] = x[1] /\ tried[i][3] = x[2]
    /\ \A x \in failed : x[2] \in cache[x[1]]

\* C20 witness: one daemon was removed, and rm-daemon exited non-zero for
\* the next one.
C20_Witness ==
    /\ Logged({"removed"}) # {}
    /\ Logged({"exit_code"}) # {}
    /\ fpc = "raised"

\* ========================================================================
\* ConfigSpec: passes of _check_daemons and the reconfiguration of daemons
\* ========================================================================
MaxClock == 2

ConfigOthers == <<healthVars, refreshVars, strayVars, hostVars, serviceVars,
                  osdVars, schedVars, connVars, serialVars,
               hostCheckVars, exportVars>>

\* A mgr and two daemons of the alert stack, listed in the order of their
\* names: alertmanager.a < mgr.a < prometheus.a.
NameOrder == <<<<"alertmanager", "a">>, <<"mgr", "a">>, <<"prometheus", "a">>>>

ConfigDaemons == Range(NameOrder)

\* CEPH_TYPES = set(CEPH_UPGRADE_ORDER)
CEPH_TYPES == {"mgr", "mon", "crash", "osd", "mds", "rgw", "rbd-mirror"}

\* _calc_daemon_deps: "need"
need == [t \in {"prometheus", "grafana", "alertmanager"} |->
            CASE t = "prometheus" -> <<"mgr", "alertmanager", "node-exporter">>
              [] t = "grafana" -> <<"prometheus">>
              [] t = "alertmanager" -> <<"mgr", "alertmanager">>]

\* sorted(deps), for a list of daemon names
Sorted(deps) == SelectSeq(NameOrder, LAMBDA n : n \in Range(deps))

\* [dd.name() for dd in c.get_daemons_by_service(dep_type)], for the cache c
NamesByService(c, dep_type) ==
    SelectSeq(NameOrder,
              LAMBDA n : n[1] = dep_type /\ \E h \in DOMAIN c : n \in c[h])

RECURSIVE AppendDeps(_, _, _)
\* "for dep_type in need.get(daemon_type, []): for dd in ...: deps.append"
AppendDeps(c, types, deps) ==
    IF types = <<>>
      THEN deps
      ELSE AppendDeps(c, Tail(types), deps \o NamesByService(c, Head(types)))

\* _calc_daemon_deps(daemon_type, daemon_id), for the cache c
CalcDaemonDeps(c, daemon_type) ==
    Sorted(AppendDeps(c, IF daemon_type \in DOMAIN need
                           THEN need[daemon_type] ELSE <<>>, <<>>))

\* generate_config(daemon_spec)[1]: the names of the daemons the
\* configuration was written for, in order
GenerateConfigDeps(c, daemon_type) == CalcDaemonDeps(c, daemon_type)

\* cache.get_daemon_last_config_deps(host, name): (None, None) is <<>>
LastDeps(last) == IF last = <<>> THEN <<>> ELSE last[1]

LastConfig(last) == IF last = <<>> THEN 0 ELSE last[2]

\* a _check_daemons that reconfigures every type when the monmap changed
NeedsReconfigAllTypes(daemon_type, last, deps) ==
    \/ LastConfig(last) = 0
    \/ LastDeps(last) # deps
    \/ last_monmap # 0 /\ last_monmap > LastConfig(last)

\* _check_daemons: "if not last_config ... elif last_deps != deps ... elif
\* self.last_monmap and self.last_monmap > last_config and dd.daemon_type in
\* CEPH_TYPES"
NeedsReconfig(daemon_type, last, deps) ==
    \/ LastConfig(last) = 0
    \/ LastDeps(last) # deps
    \/ /\ last_monmap # 0
       /\ last_monmap > LastConfig(last)
       /\ daemon_type \in CEPH_TYPES

ConfigPlaces == Hosts \X ConfigDaemons

\* The daemons that were reconfigured and whose dependencies are, with the
\* cache c, still what that pass computed.
StillSettled(c) ==
    {x \in reconfigured :
        CalcDaemonDeps(c, x[2][1]) = CalcDaemonDeps(cache, x[2][1])}

\* The module runs: the daemons are cached (prometheus on any host),
\* specs are stored (the mgr's always, and managed), some unmanaged; no
\* configuration time is recorded yet.
ConfigInit ==
    /\ LoopIdle
    /\ LateIdle
    /\ ConnIdle
    /\ spec_store \in {s \in SUBSET {dd[1] : dd \in ConfigDaemons} : "mgr" \in s}
    /\ unmanaged \in SUBSET (spec_store \ {"mgr"})
    /\ inventory = Hosts
    /\ cache \in {c \in [Hosts -> SUBSET ConfigDaemons] :
                     /\ \A g, h \in Hosts : g # h => c[g] \cap c[h] = {}
                     /\ UNION {c[h] : h \in Hosts} = ConfigDaemons
                     /\ {<<"mgr", "a">>, <<"alertmanager", "a">>} \subseteq c[1]}
    /\ CallsIdle
    /\ HealthIdle
    /\ FrameIdle
    /\ RefreshIdle
    /\ StrayIdle
    /\ HostIdle
    /\ ServiceIdle
    /\ last_config_deps = [x \in ConfigPlaces |-> <<>>]
    /\ last_monmap = 0
    /\ now = 1
    /\ deploying = <<>>
    /\ reconfigured = {}
    /\ daemons_post = {}
    /\ OsdIdle
    /\ SchedIdle

\* "daemons = self.cache.get_daemons()"; the commands are those of one pass
ConfigCheckBegin ==
    /\ fpc \in {"idle", "returned"}
    /\ fpc' = "check_loop"
    /\ todo' = {x \in ConfigPlaces : x[2] \in cache[x[1]]}
    /\ snapshot' = todo'
    /\ daemons_post' = {}
    /\ commands' = EmptyBag
    /\ UNCHANGED <<exc, tried, failed, ret>>
    /\ UNCHANGED <<last_config_deps, last_monmap, now, unmanaged, deploying,
                   reconfigured>>
    /\ UNCHANGED <<loopVars, clusterVars, events, daemonVars, ConfigOthers>>

\* The loop body for one daemon, up to the call of _create_daemon.  An orphan
\* is removed first (no try around _remove_daemon), and the body goes on.
ConfigCheckDaemon(host, dd) ==
    /\ fpc = "check_loop"
    /\ <<host, dd>> \in todo
    /\ todo' = todo \ {<<host, dd>>}
    /\ \E outcome \in IF IsOrphan(dd) THEN RemoveDaemonOutcomes ELSE {"kept"} :
          IF outcome \in {"pre_remove", "unreachable", "exit_code"}
            THEN /\ exc' \in RemoveDaemonRaises(outcome)
                 /\ fpc' = "raised"
                 /\ commands' = IF outcome = "exit_code"
                                  THEN Ran("rm-daemon", host, dd)
                                  ELSE commands
                 /\ UNCHANGED <<cache, deploying, daemons_post>>
            ELSE /\ cache' = IF outcome = "removed"
                               THEN [cache EXCEPT ![host] = @ \ {dd}]
                               ELSE cache
                 /\ commands' = IF outcome = "removed"
                                  THEN Ran("rm-daemon", host, dd)
                                  ELSE commands
                 /\ IF dd[1] \in unmanaged
                      THEN UNCHANGED <<fpc, deploying, daemons_post>>
                      ELSE /\ daemons_post' =
                                 daemons_post \cup ({dd[1]} \cap PostActionTypes)
                           /\ IF NeedsReconfig(dd[1],
                                               last_config_deps[<<host, dd>>],
                                               CalcDaemonDeps(cache', dd[1]))
                                THEN /\ fpc' = "create_daemon"
                                     /\ deploying' =
                                          <<host, dd,
                                            GenerateConfigDeps(cache', dd[1]),
                                            now,
                                            CalcDaemonDeps(cache', dd[1]),
                                            last_monmap>>
                                ELSE UNCHANGED <<fpc, deploying>>
                 /\ UNCHANGED exc
    /\ reconfigured' = StillSettled(cache')
    /\ UNCHANGED <<inventory, events, snapshot, tried, failed, ret>>
    /\ UNCHANGED <<last_config_deps, last_monmap, now, unmanaged>>
    /\ UNCHANGED <<loopVars, daemonVars, ConfigOthers>>

\* _create_daemon(..., reconfig=True) comes back: deploy exited 0, or the call
\* raised (host out of reach, deploy exited non-zero) and _check_daemons
\* caught it.
ConfigCreateDaemonEnds(ok) ==
    /\ fpc = "create_daemon"
    /\ fpc' = "check_loop"
    /\ deploying' = <<>>
    /\ LET host == deploying[1]
           dd == deploying[2]
       IN  IF ok
             THEN /\ commands' = Ran("deploy", host, dd)
                  /\ cache' = [cache EXCEPT ![host] = @ \cup {dd}]
                  /\ starting' = starting \cup {<<host, dd>>}
                  /\ requires_post_actions' =
                         requires_post_actions \cup ({dd[1]} \cap PostActionTypes)
                  /\ invalidated' = invalidated \cup {host}
                  /\ daemon_config_deps' = daemon_config_deps \cup {<<host, dd>>}
                  /\ last_config_deps' =
                         [last_config_deps EXCEPT ![<<host, dd>>] =
                             <<deploying[3], deploying[4]>>]
                  /\ reconfigured' =
                         IF /\ deploying[5] = CalcDaemonDeps(cache', dd[1])
                            /\ deploying[6] = last_monmap
                           THEN reconfigured \cup {<<host, dd>>}
                           ELSE reconfigured \ {<<host, dd>>}
                  /\ events' = events \cup {<<"daemon", dd, "INFO">>}
                  /\ UNCHANGED daemons_post
             ELSE /\ \E ran \in BOOLEAN :
                        commands' = IF ran THEN Ran("deploy", host, dd)
                                           ELSE commands
                  /\ events' = events \cup {<<"service", dd[1], "ERROR">>}
                  /\ daemons_post' = daemons_post \ {dd[1]}
                  /\ UNCHANGED <<cache, daemonVars, last_config_deps,
                                 reconfigured>>
    /\ UNCHANGED <<inventory, exc, todo, snapshot, tried, failed, ret>>
    /\ UNCHANGED <<last_monmap, now, unmanaged>>
    /\ UNCHANGED <<loopVars, ConfigOthers>>

\* "do daemon post actions", and the pass is over
ConfigCheckReturn ==
    /\ fpc = "check_loop"
    /\ todo = {}
    /\ fpc' = "returned"
    /\ requires_post_actions' = requires_post_actions \ daemons_post
    /\ UNCHANGED <<starting, invalidated, daemon_config_deps>>
    /\ UNCHANGED <<exc, todo, snapshot, tried, failed, ret>>
    /\ UNCHANGED configVars
    /\ UNCHANGED <<loopVars, clusterVars, callVars, ConfigOthers>>

\* notify("mon_map", ...): the monmap's time of modification is recorded,
\* unless it lies in the future
Notify(modified) ==
    /\ last_monmap' = IF modified > now THEN 0 ELSE modified
    /\ last_monmap' # last_monmap
    /\ reconfigured' = {}
    /\ UNCHANGED <<last_config_deps, now, unmanaged, deploying, daemons_post>>
    /\ UNCHANGED <<loopVars, clusterVars, callVars, frameVars, daemonVars,
                   ConfigOthers>>

\* time passes
Tick ==
    /\ now < MaxClock
    /\ now' = now + 1
    /\ UNCHANGED <<last_config_deps, last_monmap, unmanaged, deploying,
                   reconfigured, daemons_post>>
    /\ UNCHANGED <<loopVars, clusterVars, callVars, frameVars, daemonVars,
                   ConfigOthers>>

\* Between two passes a daemon is removed by a command.
ConfigDaemonRemoved(host, dd) ==
    /\ fpc = "returned"
    /\ dd \in cache[host]
    /\ cache' = [cache EXCEPT ![host] = @ \ {dd}]
    /\ reconfigured' = StillSettled(cache')
    /\ UNCHANGED <<inventory, last_config_deps, last_monmap, now, unmanaged,
                   deploying, daemons_post>>
    /\ UNCHANGED <<loopVars, callVars, frameVars, daemonVars, ConfigOthers>>

ConfigNext ==
    \/ ConfigCheckBegin
    \/ \E host \in Hosts, dd \in ConfigDaemons : ConfigCheckDaemon(host, dd)
    \/ \E ok \in BOOLEAN : ConfigCreateDaemonEnds(ok)
    \/ ConfigCheckReturn
    \/ \E modified \in 1..MaxClock : Notify(modified)
    \/ Tick
    \/ \E host \in Hosts, dd \in ConfigDaemons : ConfigDaemonRemoved(host, dd)

ConfigSpec == ConfigInit /\ [][ConfigNext]_vars

\* The daemon that the step of _check_daemons looks at.
Checking(x) == fpc = "check_loop" /\ x \in todo /\ x \notin todo'

\* C21: _check_daemons calls for the reconfiguration of a daemon of a managed
\* service exactly if no last config time is recorded for it, or its
\* dependencies, computed anew and sorted, are not the recorded ones, or the
\* monmap changed after its last config time and it is of a ceph type; a
\* daemon that was reconfigured with success is, while its dependencies and
\* the monmap stay what that pass read, not reconfigured again; a daemon of an
\* unmanaged spec is never reconfigured.
C21_ReconfigWhenDue ==
    [][\A x \in ConfigPlaces :
          Checking(x) =>
              LET type == x[2][1]
                  last == last_config_deps[x]
                  due == \/ last = <<>>
                         \/ last[1] # CalcDaemonDeps(cache, type)
                         \/ last_monmap > last[2] /\ type \in CEPH_TYPES
              IN  /\ (type \in spec_store \ unmanaged) =>
                         ((fpc' = "create_daemon") <=> due)
                  /\ (type \in spec_store \ unmanaged /\ x \in reconfigured) =>
                         fpc' = "check_loop"
                  /\ type \in unmanaged =>
                         fpc' = "check_loop" /\ commands' = commands]_vars

\* A pass that began after the monmap's last change found prometheus and the
\* mgr reconfigured and unchanged, and issued no command.
C21_Witness ==
    /\ fpc = "returned"
    /\ commands = EmptyBag
    /\ last_monmap = MaxClock
    /\ \E x, y \in reconfigured \cap snapshot :
          /\ x[2][1] = "prometheus"
          /\ Len(last_config_deps[x][1]) = 2
          /\ y[2][1] = "mgr"
          /\ last_config_deps[y][2] = MaxClock

\* ========================================================================
\* OsdSpec: remove_osds, stop_remove_osds and the removal queue, which the
\* serve loop and the pg_summary notification both process
\* ========================================================================
MaxOsds == 1

OsdIds == 1..MaxOsds

OsdOthers == <<callVars, healthVars, frameVars, refreshVars, strayVars,
               hostVars, daemonVars, configVars, schedVars, connVars,
               serialVars,
               hostCheckVars, exportVars>>

\* all of the loop's state but the flags the handlers here read or set
loopRest == <<run, pc, health_checks, published, migration_ongoing, spec_store,
              hpc, loopHist, pending, resumed, after_resume, gated_before>>

\* The states of an entry, in the order of a removal that succeeds.
RemovalOrder == <<"queued", "draining", "drained", "purging", "done">>

\* the serve loop and the notification handler run on threads of their own
Invokers == {"serve", "notify"}

\* a remove_osds that queues every entry with force
EnqueuedForced(replace, force) ==
    [state |-> "queued", replace |-> replace, force |-> TRUE]

\* "OSD(osd_id=int(daemon.daemon_id), replace=replace, force=force, ...)"
Enqueued(replace, force) ==
    [state |-> "queued", replace |-> replace, force |-> force]

\* remove_osds(osd_ids, replace, force)
RemoveOsds(osd_ids, replace, force) ==
    LET to_remove_daemons ==
            {o \in osd_ids : \E h \in DOMAIN cache : <<"osd", o>> \in cache[h]}
        new == to_remove_daemons \ DOMAIN to_remove_osds
    IN  /\ to_remove_osds' =
               [o \in DOMAIN to_remove_osds \cup new |->
                   IF o \in new THEN Enqueued(replace, force)
                                ELSE to_remove_osds[o]]
        /\ path' = [o \in OsdIds |-> IF o \in new THEN <<"queued">> ELSE path[o]]
        /\ observed' = observed \ new
        /\ forced' = IF force THEN forced \cup new ELSE forced \ new
        /\ event' = IF to_remove_daemons = {} THEN event ELSE TRUE
        /\ call' = <<"remove_osds",
                     IF to_remove_daemons = {}
                       THEN "Unable to find OSDs"
                       ELSE "Scheduled OSD(s) for removal">>
        /\ UNCHANGED <<num_pgs, weights, removing, purges>>
        /\ UNCHANGED <<paused, loopRest, clusterVars, OsdOthers>>
        /\ UNCHANGED <<placements, applying, daemons, remove_daemon_hosts,
                       asked, plan>>

\* a queue that gives up an entry in whatever state it is
QueueRmAnyState(state) == TRUE

\* to_remove_osds.rm(osd): the entry is given up while it is queued or
\* draining
QueueRm(state) == state \in {"queued", "draining"}

RECURSIVE StopRemove(_, _, _)
\* "for osd_id in osd_ids: try: self.to_remove_osds.rm(...) except
\* (NotFoundError, KeyError): return ...": the queue, the weights and the
\* answer
StopRemove(queue, w, osd_ids) ==
    IF osd_ids = <<>>
      THEN <<queue, w, "Stopped OSD(s) removal">>
      ELSE LET o == Head(osd_ids)
           IN  IF o \notin DOMAIN queue
                 THEN <<queue, w, "Unable to find OSD in the queue">>
                 ELSE IF ~QueueRm(queue[o].state)
                        THEN <<queue, w, "rejected">>
                        ELSE StopRemove([x \in DOMAIN queue \ {o} |-> queue[x]],
                                        [w EXCEPT ![o] = 1], Tail(osd_ids))

\* stop_remove_osds(osd_ids)
StopRemoveOsds(osd_ids) ==
    LET stopped == StopRemove(to_remove_osds, weights, osd_ids)
    IN  /\ to_remove_osds' = stopped[1]
        /\ weights' = stopped[2]
        /\ event' = IF stopped[3] = "Stopped OSD(s) removal" THEN TRUE ELSE event
        /\ call' = <<"stop_remove_osds", stopped[3]>>
        /\ observed' = observed \cap DOMAIN stopped[1]
        /\ forced' = forced \cap DOMAIN stopped[1]
        /\ UNCHANGED <<num_pgs, removing, purges, path>>
        /\ UNCHANGED <<paused, loopRest, clusterVars, OsdOthers>>
        /\ UNCHANGED <<placements, applying, daemons, remove_daemon_hosts,
                       asked, plan>>

\* serve(): "if not self.paused: self.rm_util.process_removal_queue()";
\* _trigger_osd_removal(): process_removal_queue() for every queued osd that
\* osd_stats shows with num_pgs == 0
MayProcess(invoker) ==
    IF invoker = "serve"
      THEN ~paused
      ELSE \E o \in DOMAIN to_remove_osds : num_pgs[o] = 0

\* An entry's state is written.
Moved(o, state) ==
    /\ to_remove_osds' = [to_remove_osds EXCEPT ![o].state = state]
    /\ path' = [path EXCEPT ![o] = Append(@, state)]

\* process_removal_queue comes to an entry whose next step is a command to
\* the cluster and issues it: the reweight to 0 of a queued osd (once
\* ok-to-stop lets it, or force is set), pre_remove and the marking out of a
\* drained one, the purge (or destroy) of one that is purging.
ProcessCalls(invoker, o) ==
    /\ MayProcess(invoker)
    /\ removing[invoker] = <<>>
    /\ o \in DOMAIN to_remove_osds
    /\ to_remove_osds[o].state \in {"queued", "drained", "purging"}
    /\ removing' = [removing EXCEPT ![invoker] = <<o, to_remove_osds[o].state>>]
    /\ weights' = IF to_remove_osds[o].state = "queued"
                    THEN [weights EXCEPT ![o] = 0] ELSE weights
    /\ purges' = IF to_remove_osds[o].state = "purging"
                   THEN [purges EXCEPT ![o] = @ + 1] ELSE purges
    /\ UNCHANGED <<to_remove_osds, num_pgs, observed, forced, path>>
    /\ UNCHANGED <<loopVars, clusterVars, serviceVars, OsdOthers>>

\* The command returns and the entry, if it is still as it was, moves on: an
\* error leaves a queued or drained entry for the next round and makes a
\* purging one failed.
ProcessCallReturns(invoker, ok) ==
    /\ removing[invoker] # <<>>
    /\ removing' = [removing EXCEPT ![invoker] = <<>>]
    /\ LET o == removing[invoker][1]
           state == removing[invoker][2]
       IN  IF o \in DOMAIN to_remove_osds /\ to_remove_osds[o].state = state
                /\ (ok \/ state = "purging")
             THEN Moved(o, CASE ~ok -> "failed"
                             [] state = "queued" -> "draining"
                             [] state = "drained" -> "purging"
                             [] state = "purging" -> "done")
             ELSE UNCHANGED <<to_remove_osds, path>>
    /\ UNCHANGED <<num_pgs, weights, purges, observed, forced>>
    /\ UNCHANGED <<loopVars, clusterVars, serviceVars, OsdOthers>>

\* process_removal_queue polls a draining entry: it is drained when the osd
\* has no pgs, or at once with force.
ProcessPolls(invoker, o) ==
    /\ MayProcess(invoker)
    /\ removing[invoker] = <<>>
    /\ o \in DOMAIN to_remove_osds
    /\ to_remove_osds[o].state = "draining"
    /\ num_pgs[o] = 0 \/ to_remove_osds[o].force
    /\ Moved(o, "drained")
    /\ observed' = IF num_pgs[o] = 0 THEN observed \cup {o} ELSE observed
    /\ UNCHANGED <<num_pgs, weights, removing, purges, forced>>
    /\ UNCHANGED <<loopVars, clusterVars, serviceVars, OsdOthers>>

\* The pgs of an osd move away, or come back.
PgsChange(o) ==
    /\ num_pgs' = [num_pgs EXCEPT ![o] = 1 - @]
    /\ UNCHANGED <<to_remove_osds, weights, removing, purges, observed, forced,
                   path>>
    /\ UNCHANGED <<loopVars, clusterVars, serviceVars, OsdOthers>>

\* pause(): "if not self.paused: ... self.paused = True;
\* self._kick_serve_loop()"
OsdPause ==
    /\ ~paused
    /\ paused' = TRUE
    /\ event' = TRUE
    /\ UNCHANGED <<loopRest, clusterVars, serviceVars, osdVars, OsdOthers>>

\* resume(): "if self.paused: ... self.paused = False" and, in every case,
\* "self._kick_serve_loop()"
OsdResume ==
    /\ paused' = FALSE
    /\ event' = TRUE
    /\ UNCHANGED <<loopRest, clusterVars, serviceVars, osdVars, OsdOthers>>

\* osds are cached as daemons of the first host; none is queued
OsdInit ==
    /\ LoopIdle
    /\ LateIdle
    /\ ConnIdle
    /\ spec_store = {}
    /\ inventory = Hosts
    /\ \E cached \in SUBSET OsdIds :
          cache = [h \in Hosts |-> IF h = 1 THEN {"osd"} \X cached ELSE {}]
    /\ CallsIdle
    /\ HealthIdle
    /\ FrameIdle
    /\ RefreshIdle
    /\ StrayIdle
    /\ HostIdle
    /\ ServiceIdle
    /\ ConfigIdle
    /\ SchedIdle
    /\ to_remove_osds = <<>>
    /\ num_pgs = [o \in OsdIds |-> 1]
    /\ weights = [o \in OsdIds |-> 1]
    /\ removing = [i \in Invokers |-> <<>>]
    /\ purges = [o \in OsdIds |-> 0]
    /\ observed = {}
    /\ forced = {}
    /\ path = [o \in OsdIds |-> <<>>]

\* The lists of osd ids a command names: no id twice; one id is that of no
\* osd of the cluster.
OsdIdLists ==
    {ids \in UNION {[1..n -> 1..MaxOsds + 1] : n \in 1..MaxOsds + 1} :
        \A i, j \in 1..Len(ids) : i # j => ids[i] # ids[j]}

OsdNext ==
    \/ \E osd_ids \in SUBSET OsdIds \ {{}}, replace, force \in BOOLEAN :
          RemoveOsds(osd_ids, replace, force)
    \/ \E osd_ids \in OsdIdLists : StopRemoveOsds(osd_ids)
    \/ \E invoker \in Invokers, o \in OsdIds : ProcessCalls(invoker, o)
    \/ \E invoker \in Invokers, ok \in BOOLEAN : ProcessCallReturns(invoker, ok)
    \/ \E invoker \in Invokers, o \in OsdIds : ProcessPolls(invoker, o)
    \/ \E o \in OsdIds : PgsChange(o)
    \/ OsdPause
    \/ OsdResume
    \/ EventCleared

OsdSpec == OsdInit /\ [][OsdNext]_vars

\* C22: an entry is done, or a purge or destroy was issued for it, only if
\* the osd was seen with num_pgs == 0 after it was queued, or remove_osds was
\* given force for it.
C22_DoneOnlyAfterEmpty ==
    \A o \in DOMAIN to_remove_osds :
        (to_remove_osds[o].state = "done" \/ purges[o] > 0) =>
            (o \in observed \/ o \in forced)

\* An osd queued without force is done: it was seen empty, its pgs have come
\* back since, and one purge was issued.
C22_Witness ==
    \E o \in DOMAIN to_remove_osds :
        /\ to_remove_osds[o].state = "done"
        /\ o \notin forced
        /\ o \in observed
        /\ num_pgs[o] = 1
        /\ purges[o] = 1

\* C23: for an osd queued with replace=false the entry goes through queued,
\* draining, drained, purging, done in this order (or fails on the way), and
\* osd purge is issued once for it: never twice, and once when it is done,
\* whoever calls process_removal_queue.
C23_PurgedOnce ==
    \A o \in DOMAIN to_remove_osds :
        ~to_remove_osds[o].replace =>
            /\ \/ IsPrefix(path[o], RemovalOrder)
               \/ /\ path[o][Len(path[o])] = "failed"
                  /\ IsPrefix(SubSeq(path[o], 1, Len(path[o]) - 1), RemovalOrder)
            /\ purges[o] <= 1
            /\ to_remove_osds[o].state = "done" => purges[o] = 1

MaxCount == 3

PlanOthers == <<callVars, healthVars, refreshVars, strayVars, hostVars,
                daemonVars, configVars, osdVars, connVars, serialVars,
               hostCheckVars, exportVars>>

\* the hosts of the set S in the stable order of the Inventory
InOrder(S) == SelectSeq([i \in 1..MaxHosts |-> i], LAMBDA h : h \in S)

\* 1, 2: explicit hosts (those of the Inventory), or the hosts that the
\* pattern matches, or all hosts; less those that fail the predicate
Candidates(placement, hosts, passing) ==
    SelectSeq(InOrder(hosts),
              LAMBDA h : /\ placement.hosts # {} => h \in placement.hosts
                         /\ h \in passing)

\* 3: "count if set, else len(candidates)"
Target(placement, candidates) ==
    IF placement.count # <<>> THEN placement.count[1] ELSE Len(candidates)

\* a Scheduler that does not look at the daemons there are
KeptNone(daemon_list, candidates) == <<>>

\* 4: the daemons whose host is still a candidate
Kept(daemon_list, candidates) ==
    SelectSeq(daemon_list, LAMBDA d : d[1] \in Range(candidates))

\* 5, 6: hosts are added, in the order of the candidates, until the target
\* is met; the daemons that are not kept are removed, and of those kept the
\* newest that exceed the target
Scheduler(placement, hosts, daemon_list, passing) ==
    LET candidates == Candidates(placement, hosts, passing)
        target == Target(placement, candidates)
        kept == Kept(daemon_list, candidates)
        staying == IF Len(kept) > target THEN SubSeq(kept, 1, target) ELSE kept
        free == SelectSeq(candidates,
                          LAMBDA h : \A d \in Range(kept) : d[1] # h)
        missing == target - Len(staying)
        to_add == IF missing < Len(free) THEN SubSeq(free, 1, missing) ELSE free
    IN  <<to_add, Range(daemon_list) \ Range(staying)>>

\* The specs the Scheduler is run on.
PlannedPlacements ==
    {NoPlacement, PlacementPattern("*")} \cup
    {PlacementCount(n) : n \in 0..MaxCount} \cup
    {[NoPlacement EXCEPT !.hosts = hs] : hs \in SUBSET Hosts \ {{}}} \cup
    {[NoPlacement EXCEPT !.hosts = Hosts, !.count = <<1>>]}

\* A spec, hosts, and daemons of the service or none.
PlanInit ==
    /\ LoopIdle
    /\ LateIdle
    /\ ConnIdle
    /\ spec_store = {}
    /\ inventory \in SUBSET Hosts
    /\ cache = [h \in inventory |-> {}]
    /\ CallsIdle
    /\ HealthIdle
    /\ FrameIdle
    /\ RefreshIdle
    /\ StrayIdle
    /\ HostIdle
    /\ ConfigIdle
    /\ OsdIdle
    /\ \E type \in {"mon", "mds"} :
          /\ applying = <<type>>
          /\ \E placement \in PlannedPlacements :
                placements = [s \in {type} |-> placement]
          /\ usable \in IF type = "mon" THEN SUBSET Hosts ELSE {Hosts}
    /\ call = <<>>
    /\ daemons = {}
    /\ remove_daemon_hosts = {}
    /\ asked = {}
    /\ plan = <<>>
    /\ starting = {}
    /\ invalidated = {}
    /\ daemon_config_deps = {}
    /\ requires_post_actions = {}
    /\ service_daemons \in {<<>>} \cup {<<<<h, 1>>>> : h \in Hosts}
                   \cup {<<<<g, 1>>, <<h, 2>>>> : g, h \in Hosts}
    /\ runs = <<>>
    /\ vetoed = {}

\* ha.place(), ha.add_daemon_hosts(hosts), ha.remove_daemon_hosts(hosts)
SchedulerRuns ==
    /\ fpc \in {"idle", "carried out"}
    /\ fpc' = IF fpc = "idle" THEN "planned" ELSE "planned again"
    /\ runs' = Append(runs, Scheduler(placements[applying[1]], inventory,
                                      service_daemons, usable))
    /\ UNCHANGED <<service_daemons, usable, vetoed>>
    /\ UNCHANGED <<exc, todo, snapshot, tried, failed, ret>>
    /\ UNCHANGED <<loopVars, clusterVars, serviceVars, PlanOthers>>

\* The plan is carried out: the daemons to remove are gone and every host to
\* add has a new daemon of the service.
PlanCarriedOut ==
    /\ fpc = "planned"
    /\ fpc' = "carried out"
    /\ snapshot' = Range(service_daemons)
    /\ service_daemons' =
           SelectSeq(service_daemons, LAMBDA d : d \notin runs[1][2]) \o
           [i \in 1..Len(runs[1][1]) |-> <<runs[1][1][i], 0>>]
    /\ UNCHANGED <<usable, runs, vetoed>>
    /\ UNCHANGED <<exc, todo, tried, failed, ret>>
    /\ UNCHANGED <<loopVars, clusterVars, serviceVars, PlanOthers>>

PlanNext ==
    \/ SchedulerRuns
    \/ PlanCarriedOut

PlanSpec == PlanInit /\ [][PlanNext]_vars

ConvergeOthers == <<healthVars, refreshVars, strayVars, hostVars, configVars,
                    osdVars, connVars, serialVars,
               hostCheckVars, exportVars>>

\* self.cache.daemons, for the daemons of one service
CacheOf(type, daemon_list, hosts) ==
    [h \in hosts |->
        {DaemonName(type, d[2]) : d \in {e \in Range(daemon_list) : e[1] = h}}]

\* ha.place(): the hosts of the daemons that stay and the hosts to add
Placed(daemon_list, out) ==
    {d[1] : d \in Range(daemon_list) \ out[2]} \cup Range(out[1])

\* a cache that keeps the daemon rm-daemon has removed
WithoutDaemonKept(daemon_list, d) == daemon_list

\* _remove_daemon: self.cache.rm_daemon(host, name)
WithoutDaemon(daemon_list, d) == SelectSeq(daemon_list, LAMBDA e : e # d)

\* What the Scheduler gives for the service as it is.
Planned == Scheduler(placements[applying[1]], inventory, service_daemons, usable)

\* The daemons of the service when the module takes over: up to two, on hosts
\* of the Inventory, under a host's name or another one.
FoundDaemons ==
    LET ids == {<<ShortHost(h)>> : h \in Hosts} \cup {<<ShortHost(1), 1>>}
                   \cup {<<MaxHosts>>}
        found == inventory \X ids
    IN  {<<>>} \cup {<<d>> : d \in found} \cup
        {<<p[1], p[2]>> : p \in {q \in found \X found : q[1][2] # q[2][2]}}

ConvergeInit ==
    /\ LoopIdle
    /\ LateIdle
    /\ ConnIdle
    /\ inventory \in {Hosts, {1}}
    /\ CallsIdle
    /\ HealthIdle
    /\ FrameIdle
    /\ RefreshIdle
    /\ StrayIdle
    /\ HostIdle
    /\ ConfigIdle
    /\ OsdIdle
    /\ \E type \in {"mon", "mds"} :
          /\ applying = <<type>>
          /\ spec_store = {type}
          /\ \E placement \in PlannedPlacements :
                placements = [s \in {type} |-> placement]
          /\ usable \in IF type = "mon" THEN {Hosts, {1}} ELSE {Hosts}
          /\ service_daemons \in FoundDaemons
          /\ cache = CacheOf(type, service_daemons, inventory)
    /\ vetoed \in SUBSET Range(service_daemons)
    /\ call = <<>>
    \* kept for the record: the daemons there were at the start
    /\ daemons = Range(service_daemons)
    /\ remove_daemon_hosts = {}
    /\ asked = {}
    /\ plan = <<>>
    /\ starting = {}
    /\ invalidated = {}
    /\ daemon_config_deps = {}
    /\ requires_post_actions = {}
    /\ runs = <<>>

\* An iteration of serve() comes to _apply_service: the plan.  A mon or mgr
\* service placed on no host is left as it is.
ConvergeBegins ==
    /\ fpc \in {"idle", "while", "sleep"}
    /\ LET hosts == Placed(service_daemons, Planned)
           none == applying[1] \in {"mon", "mgr"} /\ Cardinality(hosts) < 1
       IN  /\ plan' = <<hosts, Range(Planned[1]), Planned[2]>>
           /\ fpc' = IF none THEN "check_daemons" ELSE "add"
           /\ todo' = IF none THEN {} ELSE Range(Planned[1])
           /\ remove_daemon_hosts' = IF none THEN {} ELSE Planned[2]
    /\ commands' = EmptyBag
    /\ ret' = FALSE
    /\ UNCHANGED <<exc, snapshot, tried, failed, events, clusterVars>>
    /\ UNCHANGED <<placements, call, applying, daemons, asked>>
    /\ UNCHANGED <<loopVars, daemonVars, schedVars, ConvergeOthers>>

\* "for host, network, name in add_daemon_hosts": a name, then the deploy.
\* When the name is in use the exception ends _apply_service, and
\* _apply_all_services catches it.
ConvergeAdd(host) ==
    /\ fpc = "add"
    /\ host \in todo
    /\ \E got \in GetUniqueName(applying[1], host,
                                {d[2] : d \in Range(service_daemons)}, <<>>) :
          IF got[1] = "in use"
            THEN /\ fpc' = "check_daemons"
                 /\ todo' = {}
                 /\ ret' = FALSE
                 /\ events' = events \cup {<<"service", applying[1], "ERROR">>}
                 /\ UNCHANGED <<commands, service_daemons, cache,
                                daemon_config_deps>>
            ELSE /\ commands' = Ran("deploy", host,
                                    DaemonName(applying[1], got[2]))
                 /\ service_daemons' = Append(service_daemons, <<host, got[2]>>)
                 /\ cache' = CacheOf(applying[1], service_daemons', inventory)
                 /\ daemon_config_deps' =
                        daemon_config_deps \cup {<<host, got[2]>>}
                 /\ ret' = TRUE
                 /\ todo' = todo \ {host}
                 /\ UNCHANGED <<fpc, events>>
    /\ UNCHANGED <<inventory, exc, snapshot, tried, failed>>
    /\ UNCHANGED <<starting, invalidated, requires_post_actions>>
    /\ UNCHANGED <<usable, runs, vetoed, serviceVars>>
    /\ UNCHANGED <<loopVars, ConvergeOthers>>

\* "while remove_daemon_hosts and not _ok_to_stop(remove_daemon_hosts):
\* remove_daemon_hosts.pop()"
ConvergeOkToStop ==
    /\ fpc = "add"
    /\ todo = {}
    /\ LET ok == remove_daemon_hosts \cap vetoed = {}
       IN  /\ fpc' = AfterOkToStop(ok)
           /\ IF ok
                THEN UNCHANGED remove_daemon_hosts
                ELSE \E d \in remove_daemon_hosts :
                        remove_daemon_hosts' = remove_daemon_hosts \ {d}
    /\ UNCHANGED <<exc, todo, snapshot, tried, failed, ret>>
    /\ UNCHANGED <<placements, call, applying, daemons, asked, plan>>
    /\ UNCHANGED <<loopVars, clusterVars, callVars, daemonVars, schedVars,
                   ConvergeOthers>>

\* "for d in remove_daemon_hosts: self._remove_daemon(d.name(), d.hostname)"
ConvergeRemove(d) ==
    /\ fpc = "remove"
    /\ d \in remove_daemon_hosts
    /\ remove_daemon_hosts' = remove_daemon_hosts \ {d}
    /\ commands' = Ran("rm-daemon", d[1], DaemonName(applying[1], d[2]))
    /\ service_daemons' = WithoutDaemon(service_daemons, d)
    /\ cache' = CacheOf(applying[1], service_daemons', inventory)
    /\ ret' = TRUE
    /\ UNCHANGED <<inventory, events, fpc, exc, todo, snapshot, tried, failed>>
    /\ UNCHANGED <<placements, call, applying, daemons, asked, plan>>
    /\ UNCHANGED <<usable, runs, vetoed>>
    /\ UNCHANGED <<loopVars, daemonVars, ConvergeOthers>>

\* "if self._apply_all_services(): continue"
ConvergeApplied ==
    /\ fpc = "remove"
    /\ remove_daemon_hosts = {}
    /\ fpc' = AfterApply(ret)
    /\ UNCHANGED <<exc, todo, snapshot, tried, failed, ret>>
    /\ UNCHANGED <<loopVars, clusterVars, callVars, serviceVars, daemonVars,
                   schedVars, ConvergeOthers>>

\* _check_daemons reconfigures the daemons that have no config time, and
\* serve() goes to sleep.
ConvergeCheckDaemons ==
    /\ fpc = "check_daemons"
    /\ fpc' = "sleep"
    /\ commands' = commands (+)
           SetToBag({<<"deploy", d[1], DaemonName(applying[1], d[2])>> :
                        d \in Range(service_daemons) \ daemon_config_deps})
    /\ daemon_config_deps' = daemon_config_deps \cup Range(service_daemons)
    /\ UNCHANGED <<events, exc, todo, snapshot, tried, failed, ret>>
    /\ UNCHANGED <<starting, invalidated, requires_post_actions>>
    /\ UNCHANGED <<loopVars, clusterVars, serviceVars, schedVars,
                   ConvergeOthers>>

ConvergeNext ==
    \/ ConvergeBegins
    \/ \E host \in Hosts : ConvergeAdd(host)
    \/ ConvergeOkToStop
    \/ \E d \in Range(service_daemons) : ConvergeRemove(d)
    \/ ConvergeApplied
    \/ ConvergeCheckDaemons

ConvergeSpec == ConvergeInit /\ [][ConvergeNext]_vars

\* serve() runs on a thread of its own.
ConvergeFairSpec == ConvergeSpec /\ WF_vars(ConvergeNext)

\* serve() sleeps after an iteration without deploy and without rm-daemon
Quiescent == fpc = "sleep" /\ commands = EmptyBag

\* the hosts the service's daemons are on
Occupied == {d[1] : d \in Range(service_daemons)}

\* a mon or mgr service that the Scheduler places on no host
PlacedNowhere ==
    /\ applying[1] \in {"mon", "mgr"}
    /\ Placed(service_daemons, Planned) = {}

\* the name of a daemon to add is already in use
NameRefused ==
    \E i \in 1..Len(Planned[1]) :
        \E got \in GetUniqueName(applying[1], Planned[1][i],
                                 {d[2] : d \in Range(service_daemons)}, <<>>) :
            got[1] = "in use"

ConnOthers == <<strayVars, hostVars, daemonVars, configVars, osdVars,
                schedVars, serialVars,
               hostCheckVars, exportVars>>

\* inventory.get_addr(host): the address the host was added with, or its name
GetAddr(host) == <<addrs[host], host>>

\* _reset_con(host): "del self._cons[host]"
ResetCon(pool, host) == pool \ {<<"name", host>>}

\* the commands, and the error_ok each is run with: check-host by
\* _check_host, ceph-volume by _refresh_host_devices, deploy by _create_daemon
ErrorOk ==
    [c \in {"check-host", "ceph-volume", "deploy", "add_host"} |->
        c \in {"check-host", "add_host"}]

\* the failures for which _remote_connection has "except HostNotFound"
ConnectionErrors == {"open OSError", "open HostNotFound", "use HostNotFound"}

\* What the probes make of a call: both have the call inside "try ... except
\* Exception", so all that is raised is alike; an exit code is a line too.
Reported(result) ==
    CASE result = "raised" -> "unreachable"
      [] result = "code" -> "code"
      [] result = "0" -> "ok"

ProbeEffect(command, result) ==
    CASE command = "check-host" -> CheckHostEffect(Reported(result))
      [] command = "ceph-volume" -> RefreshHostDevicesEffect(Reported(result))
      [] OTHER -> "ok"

\* refresh(host) here: the host check and the device refresh are due
ProbeAfter(command) ==
    IF command = "check-host" THEN "ceph-volume" ELSE "done"

ConnInit ==
    /\ LoopIdle
    /\ LateIdle
    /\ spec_store = {}
    /\ inventory = Hosts
    /\ cache = [h \in Hosts |-> {}]
    /\ CallsIdle
    /\ HealthIdle
    /\ FrameIdle
    /\ RefreshIdle
    /\ StrayIdle
    /\ HostIdle
    /\ ServiceIdle
    /\ ConfigIdle
    /\ OsdIdle
    /\ SchedIdle
    /\ offline_hosts = {}
    /\ cons = {}
    /\ addrs \in [Hosts -> {"name", "addr"}]
    /\ attempt = <<>>

\* "refresh(self.cache.get_hosts())"
ConnRefreshBegin ==
    /\ fpc = "idle"
    /\ attempt = <<>>
    /\ fpc' = "forall_hosts"
    /\ hostpc' = [h \in DOMAIN cache |-> "check-host"]
    /\ bad_hosts' = {}
    /\ failures' = {}
    /\ failed' = {}
    /\ call' = <<>>
    /\ UNCHANGED <<exc, todo, snapshot, tried, ret>>
    /\ UNCHANGED <<placements, applying, daemons, remove_daemon_hosts, asked,
                   plan>>
    /\ UNCHANGED <<loopVars, clusterVars, callVars, healthVars, connVars,
                   ConnOthers>>

\* _run_cephadm(host, ..., command): "with self._remote_connection(host,
\* addr)" up to and with offline_hosts_remove(host)
RunCephadm(host, command) ==
    /\ attempt = <<>>
    /\ host \in inventory
    /\ IF command = "deploy"
         THEN fpc \in {"idle", "returned"}
         ELSE fpc = "forall_hosts" /\ hostpc[host] = command
    /\ offline_hosts' = offline_hosts \ {host}
    /\ attempt' = <<host, GetAddr(host), command, "connect">>
    /\ call' = <<>>
    /\ UNCHANGED <<cons, addrs>>
    /\ UNCHANGED <<placements, applying, daemons, remove_daemon_hosts, asked,
                   plan>>
    /\ UNCHANGED <<loopVars, clusterVars, callVars, healthVars, frameVars,
                   refreshVars, ConnOthers>>

\* The call is over: what it was, how it went, and what its caller got
\* ("raised", "code" or "0"); a probe takes it down.
CallEnds(how, result) ==
    LET host == attempt[1]
        command == attempt[3]
        effect == ProbeEffect(command, result)
        line == <<host, command, Reported(result)>>
    IN  /\ attempt' = <<>>
        /\ call' = <<command, host, how, result>>
        /\ IF command \in {"deploy", "add_host"}
             THEN UNCHANGED <<refreshVars, failed>>
             ELSE /\ hostpc' = [hostpc EXCEPT ![host] = ProbeAfter(command)]
                  /\ bad_hosts' = IF effect = "bad_hosts"
                                    THEN bad_hosts \cup {line}
                                    ELSE bad_hosts
                  /\ failures' = IF effect = "failures"
                                   THEN failures \cup {line}
                                   ELSE failures
                  /\ failed' = IF how \in ConnectionErrors
                                 THEN failed \cup {<<host, command>>}
                                 ELSE failed

\* _get_connection(addr), and what _remote_connection does when it raises
GetConnection(outcome) ==
    /\ attempt # <<>>
    /\ attempt[4] = "connect"
    /\ LET host == attempt[1]
           key == attempt[2]
       IN  CASE outcome = "pooled" ->
                  \* "if conn.has_connection(): return conn, r"
                  /\ key \in cons
                  /\ attempt' = [attempt EXCEPT ![4] = "use"]
                  /\ UNCHANGED <<cons, offline_hosts, call, refreshVars,
                                 failed>>
             [] outcome = "opened" ->
                  /\ cons' = cons \cup {key}
                  /\ attempt' = [attempt EXCEPT ![4] = "use"]
                  /\ UNCHANGED <<offline_hosts, call, refreshVars, failed>>
             [] outcome \in {"open OSError", "open HostNotFound"} ->
                  \* a pooled connection that is dead was reset under its
                  \* key; nothing was pooled in its place
                  /\ cons' = ResetCon(cons \ {key}, host)
                  /\ offline_hosts' = offline_hosts \cup {host}
                  /\ CallEnds(outcome, "raised")
    /\ UNCHANGED addrs
    /\ UNCHANGED <<fpc, exc, todo, snapshot, tried, ret>>
    /\ UNCHANGED <<placements, applying, daemons, remove_daemon_hosts, asked,
                   plan>>
    /\ UNCHANGED <<loopVars, clusterVars, callVars, healthVars, ConnOthers>>

\* The body of "with self._remote_connection(host, addr)", and what the
\* except clauses do with what it raises.
UseConnection(outcome) ==
    /\ attempt # <<>>
    /\ attempt[4] = "use"
    /\ LET host == attempt[1]
           error_ok == ErrorOk[attempt[3]]
       IN  CASE outcome = "use HostNotFound" ->
                  /\ offline_hosts' = offline_hosts \cup {host}
                  /\ cons' = ResetCon(cons, host)
                  /\ CallEnds(outcome, "raised")
             [] outcome = "use RuntimeError" ->
                  \* "except RuntimeError: self._reset_con(host); if
                  \* error_ok: return [], [str(e)], 1; raise"
                  /\ cons' = ResetCon(cons, host)
                  /\ CallEnds(outcome, IF error_ok THEN "code" ELSE "raised")
                  /\ UNCHANGED offline_hosts
             [] outcome = "exit code" ->
                  \* "if code and not error_ok: raise OrchestratorError"
                  /\ CallEnds(outcome, IF error_ok THEN "code" ELSE "raised")
                  /\ UNCHANGED <<cons, offline_hosts>>
             [] outcome = "exit 0" ->
                  /\ CallEnds(outcome, "0")
                  /\ UNCHANGED <<cons, offline_hosts>>
    /\ UNCHANGED addrs
    /\ UNCHANGED <<fpc, exc, todo, snapshot, tried, ret>>
    /\ UNCHANGED <<placements, applying, daemons, remove_daemon_hosts, asked,
                   plan>>
    /\ UNCHANGED <<loopVars, clusterVars, callVars, healthVars, ConnOthers>>

\* The workers are done: the health checks are brought up to date.
ConnRefreshJoin ==
    /\ fpc = "forall_hosts"
    /\ \A h \in DOMAIN hostpc : hostpc[h] = "done"
    /\ LET health_changed ==
               \/ health_detail["CEPHADM_HOST_CHECK_FAILED"] # {}
               \/ bad_hosts # {}
               \/ failures # {}
               \/ health_detail["CEPHADM_REFRESH_FAILED"] # {}
           checks ==
               [health_detail EXCEPT
                  !["CEPHADM_HOST_CHECK_FAILED"] = bad_hosts,
                  !["CEPHADM_REFRESH_FAILED"] = failures]
       IN  /\ fpc' = "returned"
           /\ health_detail' = checks
           /\ published_detail' = IF health_changed
                                    THEN checks
                                    ELSE published_detail
    /\ UNCHANGED <<exc, todo, snapshot, tried, failed, ret>>
    /\ UNCHANGED <<loopVars, clusterVars, callVars, refreshVars, serviceVars,
                   connVars, ConnOthers>>

ConnNext ==
    \/ ConnRefreshBegin
    \/ \E host \in Hosts, command \in DOMAIN ErrorOk : RunCephadm(host, command)
    \/ \E outcome \in {"pooled", "opened", "open OSError", "open HostNotFound"} :
          GetConnection(outcome)
    \/ \E outcome \in {"use HostNotFound", "use RuntimeError", "exit code",
                       "exit 0"} :
          UseConnection(outcome)
    \/ ConnRefreshJoin

ConnSpec == ConnInit /\ [][ConnNext]_vars

\* C27: when a call has failed with a connection error, in opening the
\* connection or in using it, the host is in offline_hosts, the pool holds no
\* connection to the host's address and the call raised; when a call has ended
\* with an exit code other than 0, the host is not in offline_hosts (the call
\* took it out when it began).
C27_ConnectionFailureMarksOffline ==
    call # <<>> =>
        /\ call[3] \in ConnectionErrors =>
              /\ call[2] \in offline_hosts
              /\ GetAddr(call[2]) \notin cons
              /\ call[4] = "raised"
        /\ call[3] = "exit code" => call[2] \notin offline_hosts

\* C28: after a pass in which check-host succeeded for a host and the device
\* inventory call could not reach it, CEPHADM_REFRESH_FAILED has a detail
\* line for the host and the host is not in offline_hosts.
C28_RefreshFailedNotOffline ==
    fpc = "returned" /\ attempt = <<>> /\ call # <<>> /\ call[1] = "ceph-volume" =>
        \A h \in Hosts :
            /\ <<h, "ceph-volume">> \in failed
            /\ \A line \in health_detail["CEPHADM_HOST_CHECK_FAILED"] :
                  line[1] # h
            => /\ \E line \in published_detail["CEPHADM_REFRESH_FAILED"] :
                     line[1] = h /\ line[2] = "ceph-volume"
               /\ h \notin offline_hosts

\* ------------------------------------------------------------------------
\* shutdown() and the loop
\* ------------------------------------------------------------------------

\* C29: once shutdown() has cleared the run flag, a loop that is inside an
\* iteration finishes the stage it is executing and starts no further stage:
\* from a stage it goes on to leave the iteration, not to a stage.
C29_NoStageAfterShutdown ==
    [][~run /\ pc \in StagePcs /\ pc' # pc => pc' \notin StagePcs]_vars

\* shutdown() has cleared the flag and set the event: serve() returns in the
\* end, by "while self.run" or by an exception.
C29_ShutdownLeadsToReturn == (~run /\ hpc = "idle") ~> ServeReturned

\* ========================================================================
\* SerialSpec: a service spec read from YAML, written as JSON and as YAML,
\* and read again
\* ========================================================================
SerialOthers == <<clusterVars, callVars, healthVars, frameVars, refreshVars,
                  strayVars, hostVars, serviceVars, daemonVars, configVars,
                  osdVars, schedVars, connVars, hostCheckVars,
                  exportVars>>

\* a key of a dictionary, if it is there
Opt(key, present, value) == IF present THEN key :> value ELSE <<>>

\* HostPlacementSpec.parse("hostname[:network][=name]"), on the string cut
\* at ":" and "="
HostPlacementParse(str) ==
    LET after(sep) ==
            IF \E i \in 1..Len(str) - 1 : str[i] = sep
              THEN str[1 + CHOOSE i \in 1..Len(str) - 1 : str[i] = sep]
              ELSE ""
    IN  [hostname |-> str[1], network |-> after(":"), name |-> after("=")]

\* a host of "placement: hosts:" is a string or a mapping
HostFromJson(entry) ==
    IF entry[1] = "str"
      THEN HostPlacementParse(entry[2])
      ELSE [hostname |-> entry[2].hostname, network |-> entry[2].network,
            name |-> entry[2].name]

\* a to_json that leaves the network of a host out
HostToJsonNoNetwork(h) ==
    <<"map", [hostname |-> h.hostname, name |-> h.name, network |-> ""]>>

\* HostPlacementSpec.to_json: the mapping hostname, name, network
HostToJson(h) ==
    <<"map", [hostname |-> h.hostname, name |-> h.name, network |-> h.network]>>

\* PlacementSpec.from_json
PlacementFromJson(p) ==
    [count |-> IF "count" \in DOMAIN p THEN <<p["count"]>> ELSE <<>>,
     hosts |-> IF "hosts" \in DOMAIN p
                 THEN [i \in 1..Len(p["hosts"]) |-> HostFromJson(p["hosts"][i])]
                 ELSE <<>>,
     host_pattern |-> IF "host_pattern" \in DOMAIN p
                        THEN <<p["host_pattern"]>>
                        ELSE <<>>]

\* PlacementSpec.to_json: the keys that are set
PlacementToJson(pl) ==
    Opt("count", pl.count # <<>>, pl.count[1]) @@
    Opt("hosts", pl.hosts # <<>>,
        [i \in 1..Len(pl.hosts) |-> HostToJson(pl.hosts[i])]) @@
    Opt("host_pattern", pl.host_pattern # <<>>, pl.host_pattern[1])

\* ServiceSpec.service_name(): the type, with the id if there is one
SpecServiceName(spec) == <<spec.service_type>> \o spec.service_id

\* ServiceSpec.from_json: service_name is not read, it is derived
from_json(d) ==
    [service_type |-> d["service_type"],
     service_id |-> IF "service_id" \in DOMAIN d
                      THEN <<d["service_id"]>>
                      ELSE <<>>,
     unmanaged |-> IF "unmanaged" \in DOMAIN d THEN d["unmanaged"] ELSE FALSE,
     placement |-> PlacementFromJson(IF "placement" \in DOMAIN d
                                       THEN d["placement"]
                                       ELSE <<>>)]

\* ServiceSpec.to_json: unmanaged only when it is set
to_json(spec) ==
    ("service_type" :> spec.service_type) @@
    Opt("service_id", spec.service_id # <<>>, spec.service_id[1]) @@
    ("service_name" :> SpecServiceName(spec)) @@
    ("placement" :> PlacementToJson(spec.placement)) @@
    Opt("unmanaged", spec.unmanaged, TRUE)

\* the order in which yaml.dump writes the keys of a spec
KeyOrder == <<"service_type", "service_id", "service_name", "placement",
              "unmanaged">>

\* yaml.safe_load(y): the mapping of a document
SafeLoad(y) ==
    [k \in {y[i][1] : i \in 1..Len(y)} |->
        y[CHOOSE i \in 1..Len(y) : y[i][1] = k][2]]

\* yaml.dump(spec): the keys of to_json, in their order
YamlDump(spec) ==
    LET j == to_json(spec)
        all == [i \in 1..Len(KeyOrder) |->
                  <<KeyOrder[i],
                    IF KeyOrder[i] \in DOMAIN j THEN j[KeyOrder[i]] ELSE <<>>>>]
    IN  SelectSeq(all, LAMBDA kv : kv[1] \in DOMAIN j)

\* The placements of the documents: a pattern, a count, a host as a string
\* (with a network, with a name) or as a mapping.
DocumentPlacements ==
    {"host_pattern" :> "*"} \cup
    {"count" :> n : n \in 1..MaxCount} \cup
    {"hosts" :> <<<<"str", str>>>> :
        str \in {<<"host1">>, <<"host1", ":", "1.1.1.1">>,
                 <<"host1", "=", "a">>}} \cup
    {"hosts" :> <<<<"map", [hostname |-> "ceph-001", name |-> "",
                            network |-> ""]>>>>}

\* Valid documents: a crash or an mds spec, with or without service_name
\* and unmanaged, the type first or last.
Documents ==
    LET doc(type, named, flag, placement, first) ==
            LET id == IF type = "mds" THEN <<"a">> ELSE <<>>
                head == IF first THEN <<<<"service_type", type>>>> ELSE <<>>
                tail == IF first THEN <<>> ELSE <<<<"service_type", type>>>>
            IN  head \o
                (IF id # <<>> THEN <<<<"service_id", id[1]>>>> ELSE <<>>) \o
                (IF named
                   THEN <<<<"service_name", <<type>> \o id>>>>
                   ELSE <<>>) \o
                <<<<"placement", placement>>>> \o
                (IF flag # <<>>
                   THEN <<<<"unmanaged", flag[1]>>>>
                   ELSE <<>>) \o
                tail
    IN  {doc(type, named, flag, placement, first) :
            type \in {"crash", "mds"}, named \in BOOLEAN,
            flag \in {<<>>, <<TRUE>>, <<FALSE>>},
            placement \in DocumentPlacements, first \in BOOLEAN}

SerialInit ==
    /\ LoopIdle
    /\ spec_store = {}
    /\ ClusterIdle
    /\ CallsIdle
    /\ HealthIdle
    /\ FrameIdle
    /\ RefreshIdle
    /\ StrayIdle
    /\ HostIdle
    /\ ServiceIdle
    /\ ConfigIdle
    /\ OsdIdle
    /\ SchedIdle
    /\ ConnIdle
    /\ HostCheckIdle
    /\ ExportIdle
    /\ document \in Documents
    /\ loaded = <<>>
    /\ dumped = <<>>
    /\ reloaded = <<>>
    /\ exported = FALSE

\* "apply -i <yaml>": ServiceSpec.from_json(yaml.safe_load(document))
SerialFromYaml ==
    /\ loaded = <<>>
    /\ loaded' = <<from_json(SafeLoad(document))>>
    /\ UNCHANGED <<document, dumped, reloaded, exported>>
    /\ UNCHANGED <<loopVars, SerialOthers>>

\* "ls --export --format yaml": yaml.dump(spec)
SerialYamlDump ==
    /\ loaded # <<>>
    /\ dumped = <<>>
    /\ dumped' = <<YamlDump(loaded[1])>>
    /\ UNCHANGED <<document, loaded, reloaded, exported>>
    /\ UNCHANGED <<loopVars, SerialOthers>>

\* ServiceSpec.from_json(spec.to_json())
SerialJsonRoundTrip ==
    /\ loaded # <<>>
    /\ reloaded = <<>>
    /\ reloaded' = <<from_json(to_json(loaded[1]))>>
    /\ UNCHANGED <<document, loaded, dumped, exported>>
    /\ UNCHANGED <<loopVars, SerialOthers>>

\* What was exported is given to "apply -i".
SerialApplyExported ==
    /\ dumped # <<>>
    /\ ~exported
    /\ document' = dumped[1]
    /\ exported' = TRUE
    /\ loaded' = <<>>
    /\ dumped' = <<>>
    /\ reloaded' = <<>>
    /\ UNCHANGED <<loopVars, SerialOthers>>

SerialNext ==
    \/ SerialFromYaml
    \/ SerialYamlDump
    \/ SerialJsonRoundTrip
    \/ SerialApplyExported

SerialSpec == SerialInit /\ [][SerialNext]_vars

AddrKinds == {"name", "addr"}

PoolInit ==
    /\ LoopIdle
    /\ LateIdle
    /\ spec_store = {}
    /\ inventory \in SUBSET Hosts
    /\ cache = [h \in inventory |-> {}]
    /\ CallsIdle
    /\ HealthIdle
    /\ FrameIdle
    /\ RefreshIdle
    /\ StrayIdle
    /\ HostIdle
    /\ ServiceIdle
    /\ ConfigIdle
    /\ OsdIdle
    /\ SchedIdle
    /\ offline_hosts = {}
    /\ cons = {}
    /\ addrs \in [Hosts -> AddrKinds]
    /\ attempt = <<>>

\* _add_host(spec): "self._run_cephadm(spec.hostname, cephadmNoImage,
\* 'check-host', ..., addr=spec.addr, error_ok=True)", up to and with
\* offline_hosts_remove(host) of _remote_connection
PoolAddHostBegins(host, addr) ==
    /\ attempt = <<>>
    /\ host \notin inventory
    /\ addrs' = [addrs EXCEPT ![host] = addr]
    /\ offline_hosts' = offline_hosts \ {host}
    /\ attempt' = <<host, <<addr, host>>, "add_host", "connect">>
    /\ call' = <<>>
    /\ UNCHANGED cons
    /\ UNCHANGED <<placements, applying, daemons, remove_daemon_hosts, asked,
                   plan>>
    /\ UNCHANGED <<loopVars, clusterVars, callVars, healthVars, frameVars,
                   refreshVars, ConnOthers>>

\* _add_host(spec), after the check: "if code: raise OrchestratorError", else
\* the host is added, its cache entry is primed and it is taken out of
\* offline_hosts.  What _run_cephadm raised is raised by _add_host.
PoolAddHostReturns ==
    /\ attempt = <<>>
    /\ call # <<>>
    /\ call[1] = "add_host"
    /\ Len(call) = 4
    /\ LET host == call[2]
       IN  IF call[4] = "0"
             THEN /\ inventory' = inventory \cup {host}
                  /\ cache' = PrimeEmptyHost(cache, host)
                  /\ offline_hosts' = offline_hosts \ {host}
                  /\ call' = <<"add_host", host, "added">>
             ELSE /\ call' = <<"add_host", host, "failed">>
                  /\ UNCHANGED <<inventory, cache, offline_hosts>>
    /\ UNCHANGED <<cons, addrs, attempt>>
    /\ UNCHANGED <<placements, applying, daemons, remove_daemon_hosts, asked,
                   plan>>
    /\ UNCHANGED <<loopVars, callVars, healthVars, frameVars, refreshVars,
                   ConnOthers>>

\* remove_host(host): inventory.rm_host, cache.rm_host, _reset_con(host)
PoolRemoveHost(host) ==
    /\ attempt = <<>>
    /\ host \in inventory
    /\ inventory' = inventory \ {host}
    /\ cache' = RmHost(cache, host)
    /\ cons' = ResetCon(cons, host)
    /\ call' = <<"remove_host", host, "removed">>
    /\ UNCHANGED <<offline_hosts, addrs, attempt>>
    /\ UNCHANGED <<placements, applying, daemons, remove_daemon_hosts, asked,
                   plan>>
    /\ UNCHANGED <<loopVars, callVars, healthVars, frameVars, refreshVars,
                   ConnOthers>>

\* update_host_addr(host, addr): inventory.set_addr, _reset_con(host)
PoolUpdateHostAddr(host, addr) ==
    /\ attempt = <<>>
    /\ host \in inventory
    /\ addrs' = [addrs EXCEPT ![host] = addr]
    /\ cons' = ResetCon(cons, host)
    /\ call' = <<"update_host_addr", host, "updated">>
    /\ UNCHANGED <<offline_hosts, attempt>>
    /\ UNCHANGED <<placements, applying, daemons, remove_daemon_hosts, asked,
                   plan>>
    /\ UNCHANGED <<loopVars, clusterVars, callVars, healthVars, frameVars,
                   refreshVars, ConnOthers>>

PoolNext ==
    \/ \E host \in Hosts : RunCephadm(host, "deploy")
    \/ \E outcome \in {"pooled", "opened", "open OSError", "open HostNotFound"} :
          GetConnection(outcome)
    \/ \E outcome \in {"use HostNotFound", "use RuntimeError", "exit code",
                       "exit 0"} :
          UseConnection(outcome)
    \/ \E host \in Hosts, addr \in AddrKinds : PoolAddHostBegins(host, addr)
    \/ PoolAddHostReturns
    \/ \E host \in Hosts : PoolRemoveHost(host)
    \/ \E host \in Hosts, addr \in AddrKinds : PoolUpdateHostAddr(host, addr)

PoolSpec == PoolInit /\ [][PoolNext]_vars

\* C31: every host in offline_hosts is a host of the Inventory, and when
\* remove_host(h) or add_host(h) is over, failed or not, h is not in
\* offline_hosts.
C31_OfflineHostsInInventory ==
    /\ offline_hosts \subseteq inventory
    /\ (call # <<>> /\ call[1] \in {"remove_host", "add_host"} /\ Len(call) = 3)
          => call[2] \notin offline_hosts

\* C37: when remove_host(h) or update_host_addr(h, a) is over, or a call to h
\* has failed with a connection error, the pool holds no connection to h,
\* under its name or under its address.
C37_PoolHoldsNoConnection ==
    (/\ attempt = <<>>
     /\ call # <<>>
     /\ \/ call[1] \in {"remove_host", "update_host_addr"}
        \/ call[3] \in ConnectionErrors)
        => \A addr \in AddrKinds : <<addr, call[2]>> \notin cons

\* C32: while paused is set, process_removal_queue is not invoked, neither by
\* serve() nor by notify -> _trigger_osd_removal: no step taken while paused
\* issues a command of the removal queue for an invoker or moves an entry of
\* the queue to its next state.
C32_NoRemovalWhilePaused ==
    [][paused => /\ \A invoker \in Invokers :
                       removing[invoker] = <<>> => removing'[invoker] = <<>>
                 /\ \A o \in DOMAIN to_remove_osds \cap DOMAIN to_remove_osds' :
                       to_remove_osds[o].state = "draining"
                           => to_remove_osds'[o].state = "draining"]_vars

\* C33: within one pass of _check_daemons a daemon that was removed as an
\* orphan is not reconfigured or redeployed afterwards: no deploy is issued or
\* under way for it and it is not in the HostCache.
C33_OrphanNotRedeployed ==
    \A x \in ConfigPlaces :
        (/\ fpc \in {"check_loop", "create_daemon", "returned"}
         /\ BagIn(<<"rm-daemon", x[1], x[2]>>, commands))
            => /\ ~BagIn(<<"deploy", x[1], x[2]>>, commands)
               /\ ~(deploying # <<>> /\ deploying[1] = x[1] /\ deploying[2] = x[2])
               /\ x[2] \notin cache[x[1]]

\* C35: when a pass of _refresh_hosts_and_daemons has returned,
\* CEPHADM_REFRESH_FAILED is published exactly if the daemon listing or the
\* device and network inventory of some host failed in that pass; a pass in
\* which every probe succeeded, one that refreshed OSDSpec previews included,
\* leaves it unpublished.
C35_RefreshFailedIffProbeFailed ==
    fpc = "returned" =>
        (published_detail["CEPHADM_REFRESH_FAILED"] # {}
            <=> \E line \in failures : line[2] \in {"ls", "ceph-volume"})

\* ========================================================================
\* HostCheckSpec: passes of _refresh_hosts_and_daemons, one after the other,
\* with warn_on_failed_host_check set and nothing but the host check due
\* ========================================================================

\* cache.host_needs_check(host): the last check is older than
\* host_check_interval
HostNeedsCheck(host) == host \notin last_host_check

\* "refresh(self.cache.get_hosts())" of a first or a later pass
HostCheckBegin ==
    /\ fpc \in {"idle", "returned"}
    /\ fpc' = "forall_hosts"
    /\ hostpc' = [h \in DOMAIN cache |-> RefreshSteps[1]]
    /\ bad_hosts' = {}
    /\ failures' = {}
    /\ UNCHANGED <<exc, todo, snapshot, tried, failed, ret>>
    /\ UNCHANGED <<loopVars, clusterVars, healthVars, RefreshOthers>>

\* "if self.cache.host_needs_check(host): r = self._check_host(host); if r
\* is not None: bad_hosts.append(r)".  _check_host records the time of the
\* check once _run_cephadm has returned, whatever the exit code, and not when
\* the call raised.
HostCheckStep(host, outcome) ==
    /\ fpc = "forall_hosts"
    /\ host \in DOMAIN hostpc
    /\ hostpc[host] = "check-host"
    /\ hostpc' = [hostpc EXCEPT ![host] = StepAfter("check-host")]
    /\ IF HostNeedsCheck(host)
         THEN /\ bad_hosts' = IF CheckHostEffect(outcome) = "bad_hosts"
                                THEN bad_hosts \cup {<<host, "check-host", outcome>>}
                                ELSE bad_hosts
              /\ last_host_check' = IF outcome \in {"ok", "code"}
                                      THEN last_host_check \cup {host}
                                      ELSE last_host_check
              /\ check_failed' = IF CheckHostEffect(outcome) = "bad_hosts"
                                   THEN check_failed \cup {host}
                                   ELSE check_failed \ {host}
              /\ failed' = IF outcome \in ContactFailures
                             THEN failed \cup {<<host, "check-host">>}
                             ELSE failed
         ELSE /\ outcome = "ok"
              /\ UNCHANGED <<bad_hosts, last_host_check, check_failed, failed>>
    /\ UNCHANGED <<failures, fpc, exc, todo, snapshot, tried, ret>>
    /\ UNCHANGED <<loopVars, clusterVars, healthVars, callVars, strayVars,
                   hostVars, serviceVars, daemonVars, configVars, osdVars,
                   schedVars, connVars, serialVars, exportVars>>

\* The steps of refresh(host) after the host check: none is due.
HostCheckRest(host) ==
    \E step \in Range(RefreshSteps) \ {"check-host"} :
        RefreshHostStep(host, step, "ok", "ok")

\* host_check_interval has passed since the last check of the host.
HostCheckDue(host) ==
    /\ host \in last_host_check
    /\ last_host_check' = last_host_check \ {host}
    /\ UNCHANGED check_failed
    /\ UNCHANGED <<loopVars, clusterVars, healthVars, frameVars, refreshVars,
                   callVars, strayVars, hostVars, serviceVars, daemonVars,
                   configVars, osdVars, schedVars, connVars, serialVars,
                   exportVars>>

HostCheckNext ==
    \/ HostCheckBegin
    \/ \E host \in Hosts, outcome \in {"ok", "code", "unreachable"} :
          HostCheckStep(host, outcome)
    \/ \E host \in Hosts : HostCheckRest(host)
    \/ RefreshJoin
    \/ \E host \in Hosts : HostCheckDue(host)

HostCheckSpec == RefreshInit /\ [][HostCheckNext]_vars

\* C34: once the check-host of a host has failed, CEPHADM_HOST_CHECK_FAILED
\* has a detail line for the host after every later pass of
\* _refresh_hosts_and_daemons, a pass in which the host is not checked again
\* included, until a check-host of the host succeeds.
C34_HostCheckAlertKept ==
    fpc = "returned" =>
        \A h \in check_failed :
            \E line \in health_detail["CEPHADM_HOST_CHECK_FAILED"] :
                line[1] = h /\ line[2] = "check-host"

\* ========================================================================
\* RaceSpec: remove_host on a command thread while the serve loop refreshes
\* the daemons of the hosts or deploys a daemon
\* ========================================================================
RaceOthers == <<loopVars, callVars, healthVars, strayVars, hostVars, osdVars,
                schedVars, connVars, serialVars, hostCheckVars, exportVars>>

\* HostCache.update_host_daemons(host, dm): "self.daemons[host] = dm"
WithHostDaemons(c, host, dm) ==
    [h \in DOMAIN c \cup {host} |-> IF h = host THEN dm ELSE c[h]]

\* "refresh(self.cache.get_hosts())": the hosts are those of the cache when
\* the pass begins, and "cephadm ls" is sent to each
RaceRefreshBegin ==
    /\ fpc \in {"idle", "returned"}
    /\ deploying = <<>>
    /\ DOMAIN cache # {}
    /\ fpc' = "forall_hosts"
    /\ hostpc' = [h \in DOMAIN cache |-> "ls"]
    /\ UNCHANGED <<bad_hosts, failures, exc, todo, snapshot, tried, failed, ret>>
    /\ UNCHANGED <<clusterVars, serviceVars, daemonVars, configVars, RaceOthers>>

\* _refresh_host_daemons(host): "cephadm ls" comes back; its list goes into
\* the cache with update_host_daemons, a failure into failures.
RaceRefreshHostDaemons(host, outcome, dm) ==
    /\ fpc = "forall_hosts"
    /\ host \in DOMAIN hostpc
    /\ hostpc[host] = "ls"
    /\ hostpc' = [hostpc EXCEPT ![host] = "done"]
    /\ IF RefreshHostDaemonsEffect(outcome) = "ok"
         THEN /\ cache' = WithHostDaemons(cache, host, dm)
              /\ UNCHANGED failures
         ELSE /\ dm = {}
              /\ failures' = failures \cup {<<host, "ls", outcome>>}
              /\ UNCHANGED cache
    /\ UNCHANGED <<inventory, bad_hosts, fpc, exc, todo, snapshot, tried, failed,
                   ret>>
    /\ UNCHANGED <<serviceVars, daemonVars, configVars, RaceOthers>>

\* The workers of the pass are done.
RaceRefreshJoin ==
    /\ fpc = "forall_hosts"
    /\ \A h \in DOMAIN hostpc : hostpc[h] = "done"
    /\ fpc' = "returned"
    /\ UNCHANGED <<exc, todo, snapshot, tried, failed, ret>>
    /\ UNCHANGED <<clusterVars, refreshVars, serviceVars, daemonVars, configVars,
                   RaceOthers>>

\* _create_daemon(daemon_spec): the serve loop sends "deploy" to a host of
\* the inventory
RaceCreateDaemon(host, dd) ==
    /\ fpc \in {"idle", "returned"}
    /\ deploying = <<>>
    /\ host \in inventory
    /\ deploying' = <<host, dd>>
    /\ UNCHANGED <<last_config_deps, last_monmap, now, unmanaged, reconfigured,
                   daemons_post>>
    /\ UNCHANGED <<clusterVars, frameVars, refreshVars, serviceVars, daemonVars,
                   RaceOthers>>

\* "if not code and daemon_spec.host in self.cache.daemons: ...
\* self.cache.add_daemon(daemon_spec.host, sd)"
RaceCreateDaemonEnds(ok) ==
    /\ deploying # <<>>
    /\ deploying' = <<>>
    /\ cache' = IF ok /\ deploying[1] \in DOMAIN cache
                  THEN [cache EXCEPT ![deploying[1]] = @ \cup {deploying[2]}]
                  ELSE cache
    /\ UNCHANGED <<last_config_deps, last_monmap, now, unmanaged, reconfigured,
                   daemons_post>>
    /\ UNCHANGED <<inventory, frameVars, refreshVars, serviceVars, daemonVars,
                   RaceOthers>>

\* remove_host(host), on the thread of the command
RaceRemoveHost(host) ==
    /\ host \in inventory
    /\ inventory' = inventory \ {host}
    /\ cache' = RmHost(cache, host)
    /\ call' = <<"remove_host", host, "removed">>
    /\ UNCHANGED <<placements, applying, daemons, remove_daemon_hosts, asked,
                   plan>>
    /\ UNCHANGED <<frameVars, refreshVars, daemonVars, configVars, RaceOthers>>

RaceNext ==
    \/ RaceRefreshBegin
    \/ \E host \in Hosts, outcome \in {"ok", "code", "unreachable"},
          dm \in SUBSET Daemons : RaceRefreshHostDaemons(host, outcome, dm)
    \/ RaceRefreshJoin
    \/ \E host \in Hosts, dd \in Daemons : RaceCreateDaemon(host, dd)
    \/ \E ok \in BOOLEAN : RaceCreateDaemonEnds(ok)
    \/ \E host \in Hosts : RaceRemoveHost(host)

RaceSpec == RefreshInit /\ [][RaceNext]_vars

\* C36: whatever the interleaving of remove_host(h) with a pass of the serve
\* loop that refreshes or deploys on h, once both are over h has no entry in
\* the HostCache: at rest the hosts of the cache are hosts of the inventory.
C36_RemovedHostStaysRemoved ==
    (fpc \in {"idle", "returned"} /\ deploying = <<>>)
        => DOMAIN cache \subseteq inventory

\* The outcomes a host of add_daemon_hosts is logged with, and those with
\* which the loop is left by an exception.
AddOutcomes == {"in use", "deploy unreachable", "deploy failed", "deployed"}

AddRaised == AddOutcomes \ {"deployed"}

\* What _remove_daemon is logged with.
RemovalSteps == {"pre_remove raised", "pre_remove"} \cup RemoveDaemonOutcomes

\* C38: within one call of _apply_service ok_to_stop is asked and a daemon is
\* removed only after a daemon was deployed on every host that was to receive
\* one; every entry of the additions comes before every entry of the
\* removals; and when an addition raised, ok_to_stop was not asked, no
\* removal was begun and every daemon the call found is still in the cache.
C38_RemovalsAfterDeploys ==
    /\ (asked # {} \/ Logged(RemovalSteps) # {}) =>
           /\ plan # <<>>
           /\ \A h \in plan[2] :
                 \E i \in Logged({"deployed"}) : tried[i][2] = h
           /\ Logged(AddRaised) = {}
    /\ \A i \in Logged(AddOutcomes), j \in Logged(RemovalSteps) : i < j
    /\ Logged(AddRaised) # {} =>
           /\ asked = {}
           /\ Logged(RemovalSteps) = {}
           /\ \A x \in snapshot : x[2] \in cache[x[1]]

\* C38 witness: a call that deployed a daemon on a host and then removed a
\* daemon from another.
C38_Witness ==
    /\ plan # <<>>
    /\ plan[2] # {}
    /\ Logged({"deployed"}) # {}
    /\ Logged({"removed"}) # {}

\* C39: stop_remove_osds(ids) is all or nothing: when an id of the list is
\* not in the removal queue the queue is left exactly as it was; when all
\* are in the queue, all of them are taken out of it and the serve loop is
\* woken.
C39_StopRemoveAllOrNothing ==
    [][\A osd_ids \in OsdIdLists :
          StopRemoveOsds(osd_ids) =>
              IF \A i \in 1..Len(osd_ids) : osd_ids[i] \in DOMAIN to_remove_osds
                THEN /\ \A i \in 1..Len(osd_ids) :
                           osd_ids[i] \notin DOMAIN to_remove_osds'
                     /\ event'
                ELSE to_remove_osds' = to_remove_osds]_vars

\* ========================================================================
\* ExportSpec: create_export and delete_export of FSExport on one NFS
\* cluster (volumes/fs/nfs.py)
\* ========================================================================
MaxPath == 3
MaxExports == 2

ExportOthers == <<loopVars, clusterVars, callVars, healthVars, frameVars,
                  refreshVars, strayVars, hostVars, daemonVars, configVars,
                  osdVars, schedVars, connVars, serialVars, hostCheckVars>>

\* The paths a command gives, character by character.
PathChars == {"/", "a", " "}

Paths == UNION {[1..n -> PathChars] : n \in 0..MaxPath}

RECURSIVE LStrip(_)
LStrip(p) ==
    IF p # <<>> /\ Head(p) = " " THEN LStrip(Tail(p)) ELSE p

RECURSIVE RStrip(_)
RStrip(p) ==
    IF p # <<>> /\ p[Len(p)] = " "
      THEN RStrip(SubSeq(p, 1, Len(p) - 1))
      ELSE p

\* path.strip()
Strip(p) == RStrip(LStrip(p))

RECURSIVE Comps(_, _, _)
\* "comps = path.split('/')" without the empty components
Comps(p, cur, out) ==
    IF p = <<>>
      THEN IF cur = <<>> THEN out ELSE Append(out, cur)
      ELSE IF Head(p) = "/"
             THEN Comps(Tail(p), <<>>,
                        IF cur = <<>> THEN out ELSE Append(out, cur))
             ELSE Comps(Tail(p), Append(cur, Head(p)), out)

RECURSIVE Join(_)
\* '/'.join(comps)
Join(comps) ==
    IF comps = <<>>
      THEN <<>>
      ELSE IF Len(comps) = 1
             THEN comps[1]
             ELSE comps[1] \o <<"/">> \o Join(Tail(comps))

\* posixpath.normpath(path), for paths without dots: one leading slash is
\* kept, exactly two are kept, three or more become one; the other slashes
\* separate the components
Normpath(p) ==
    IF p = <<>>
      THEN <<".">>
      ELSE LET initial_slashes ==
                   IF p[1] # "/"
                     THEN 0
                     ELSE IF /\ Len(p) >= 2
                             /\ p[2] = "/"
                             /\ ~(Len(p) >= 3 /\ p[3] = "/")
                            THEN 2
                            ELSE 1
               joined == [i \in 1..initial_slashes |-> "/"] \o
                             Join(Comps(p, <<>>, <<>>))
           IN  IF joined = <<>> THEN <<".">> ELSE joined

\* format_path(path)
FormatPath(p) ==
    IF p = <<>>
      THEN p
      ELSE LET normed == Normpath(Strip(p))
           IN  IF Len(normed) >= 2 /\ normed[1] = "/" /\ normed[2] = "/"
                 THEN Tail(normed)
                 ELSE normed

\* os.path.isabs(path)
Isabs(p) == p # <<>> /\ p[1] = "/"

\* _fetch_export(pseudo_path): the position of the first export with that
\* pseudo path, 0 for None
FetchExport(exps, pseudo_path) ==
    IF \E i \in 1..Len(exps) : exps[i][2] = pseudo_path
      THEN CHOOSE i \in 1..Len(exps) :
               /\ exps[i][2] = pseudo_path
               /\ \A j \in 1..(i - 1) : exps[j][2] # pseudo_path
      ELSE 0

RECURSIVE GenWalk(_, _)
\* "for e_id in exports: if e_id == nid: nid += 1 else: break"
GenWalk(sorted, nid) ==
    IF sorted = <<>>
      THEN nid
      ELSE IF Head(sorted) = nid
             THEN GenWalk(Tail(sorted), nid + 1)
             ELSE nid

\* an _gen_export_id that counts the exports
GenExportIdCounted(exps) == Len(exps) + 1

\* _gen_export_id()
GenExportId(exps) ==
    GenWalk(SortSeq([i \in 1..Len(exps) |-> exps[i][1]],
                    LAMBDA a, b : a < b), 1)

\* the list without its element at position i
Without(exps, i) == SubSeq(exps, 1, i - 1) \o SubSeq(exps, i + 1, Len(exps))

ExportInit ==
    /\ LoopIdle
    /\ spec_store = {}
    /\ ClusterIdle
    /\ CallsIdle
    /\ HealthIdle
    /\ FrameIdle
    /\ RefreshIdle
    /\ StrayIdle
    /\ HostIdle
    /\ ServiceIdle
    /\ RestIdle

\* create_export(fs_name, cluster_id, pseudo_path, read_only, path): the
\* file system is known or not; the user key is created or the command
\* raises; the export is appended to the list and then written to RADOS,
\* which may raise.  Every exception is caught and answered with EINVAL.
ExportCreate(check_fs, pseudo_path, outcome) ==
    LET pseudo == FormatPath(pseudo_path)
    IN  /\ IF ~check_fs
             THEN /\ outcome = "ok"
                  /\ call' = <<"create_export", pseudo_path, "ENOENT",
                               "filesystem not found">>
                  /\ UNCHANGED exports
             ELSE IF ~Isabs(pseudo) \/ pseudo = <<"/">>
                    THEN /\ outcome = "ok"
                         /\ call' = <<"create_export", pseudo_path, "EINVAL",
                                      "pseudo path is invalid">>
                         /\ UNCHANGED exports
                    ELSE IF FetchExport(exports, pseudo) # 0
                           THEN /\ outcome = "ok"
                                /\ call' = <<"create_export", pseudo_path, "0",
                                             "Export already exists">>
                                /\ UNCHANGED exports
                           ELSE /\ Len(exports) < MaxExports
                                /\ exports' =
                                       IF outcome = "user key raises"
                                         THEN exports
                                         ELSE Append(exports,
                                                     <<GenExportId(exports),
                                                       pseudo>>)
                                /\ call' =
                                       IF outcome = "ok"
                                         THEN <<"create_export", pseudo_path,
                                                "0", "created">>
                                         ELSE <<"create_export", pseudo_path,
                                                "EINVAL", outcome>>
        /\ UNCHANGED <<placements, applying, daemons, remove_daemon_hosts,
                       asked, plan>>
        /\ UNCHANGED ExportOthers

\* delete_export(cluster_id, pseudo_path), that is _delete_export: the
\* object is removed from RADOS, the export from the list, then its user;
\* each of the two commands may raise.
ExportDelete(pseudo_path, outcome) ==
    LET i == FetchExport(exports, pseudo_path)
    IN  /\ IF i = 0
             THEN /\ outcome = "ok"
                  /\ call' = <<"delete_export", pseudo_path, "0",
                               "Export does not exist">>
                  /\ UNCHANGED exports
             ELSE /\ exports' = IF outcome = "remove_obj raises"
                                  THEN exports
                                  ELSE Without(exports, i)
                  /\ call' = IF outcome = "ok"
                               THEN <<"delete_export", pseudo_path, "0",
                                      "Successfully deleted export">>
                               ELSE <<"delete_export", pseudo_path, "-1",
                                      outcome>>
        /\ UNCHANGED <<placements, applying, daemons, remove_daemon_hosts,
                       asked, plan>>
        /\ UNCHANGED ExportOthers

ExportNext ==
    \/ \E check_fs \in BOOLEAN, pseudo_path \in Paths,
          outcome \in {"ok", "user key raises", "write_obj raises"} :
          ExportCreate(check_fs, pseudo_path, outcome)
    \/ \E pseudo_path \in Paths,
          outcome \in {"ok", "remove_obj raises", "auth rm raises"} :
          ExportDelete(pseudo_path, outcome)

ExportSpec == ExportInit /\ [][ExportNext]_vars

\* The export ids in use.
ExportIds == {exports[i][1] : i \in 1..Len(exports)}

\* C40: after any sequence of create_export and delete_export on one NFS
\* cluster the export ids are pairwise distinct and the pseudo paths are
\* pairwise distinct; create_export for a pseudo path that is there already
\* answers with success and 'Export already exists' and changes nothing; an
\* export that is created receives the smallest positive id not in use.
C40_ExportsDistinct ==
    /\ [](\A i, j \in 1..Len(exports) :
              i # j => /\ exports[i][1] # exports[j][1]
                       /\ exports[i][2] # exports[j][2])
    /\ [][(\E outcome \in {"ok", "user key raises", "write_obj raises"} :
               /\ call' # <<>>
               /\ call'[1] = "create_export"
               /\ ExportCreate(TRUE, call'[2], outcome)) =>
                 /\ (\E i \in 1..Len(exports) :
                        exports[i][2] = FormatPath(call'[2]))
                        => /\ call'[3] = "0"
                           /\ call'[4] = "Export already exists"
                           /\ exports' = exports
                 /\ exports' # exports
                        => \E n \in 1..(Len(exports) + 1) :
                              /\ n \notin ExportIds
                              /\ \A k \in 1..(n - 1) : k \in ExportIds
                              /\ exports' =
                                     Append(exports,
                                            <<n, FormatPath(call'[2])>>)]_vars

\* C40 witness: an export was deleted and the next one created has taken the
\* id that became free, below an id in use.
C40_Witness ==
    /\ call # <<>>
    /\ call[1] = "create_export"
    /\ call[4] = "created"
    /\ Len(exports) >= 2
    /\ exports[Len(exports)][1] < exports[1][1]

====
